---- MODULE Spec2Model ----
(***************************************************************************)
(* Communicating P7_TOPHITS over MPI (src/misc/mpisupport.c, section 4).   *)
(*                                                                         *)
(* A sender packs a P7_TOPHITS into an envelope message, one message per   *)
(* hit and one message per domain; a receiver probes, grows its buffer,    *)
(* receives and unpacks them.  The model keeps the byte arithmetic of      *)
(* MPI_Pack_size / MPI_Pack / MPI_Unpack (positions are byte positions,    *)
(* every datatype has its packed width) and the message matching rules of  *)
(* MPI_Probe / MPI_Recv (per-sender FIFO, source and tag selection).       *)
(***************************************************************************)
EXTENDS Integers, Sequences, FiniteSets, TLC

(***************************************************************************)
(* Bounds of the model.                                                    *)
(***************************************************************************)
MaxHits == 2      \* hits in a collection: 0..MaxHits
MaxDom  == 2      \* domains of a hit: 0..MaxDom
MaxPool == 2      \* bytes in an alignment display's string pool: 0..MaxPool
MaxStr  == 2      \* characters of a present name/acc/desc: 0..MaxStr
MaxFaults == 1    \* environment faults (failed MPI call, failed allocation) per run
BigBuf  == 160    \* capacity of a buffer left over from an earlier, larger transfer
MaxCalls == 2     \* calls of p7_tophits_MPISend by one sender

(***************************************************************************)
(* Status codes and MPI wildcards.                                         *)
(***************************************************************************)
eslOK   == "eslOK"
eslFAIL == "eslFAIL"
eslEMEM == "eslEMEM"
eslESYS == "eslESYS"

MPI_ANY_SOURCE == -1
MPI_ANY_TAG    == -1

(***************************************************************************)
(* Packed widths.  MPI_Pack_size(count, type) is count elements of the     *)
(* type's packed width.                                                    *)
(***************************************************************************)
Width(t) ==
  CASE t = "MPI_INT"           -> 4
    [] t = "MPI_FLOAT"         -> 4
    [] t = "MPI_DOUBLE"        -> 8
    [] t = "MPI_LONG"          -> 8
    [] t = "MPI_LONG_LONG_INT" -> 8
    [] t = "MPI_CHAR"          -> 1

MPI_Pack_size(count, t) == count * Width(t)

(***************************************************************************)
(* MPI_Pack.  A pack in progress is [st, pos, items]: the status so far,   *)
(* the byte position, and the typed items written.  An item is             *)
(* [t |-> datatype, v |-> <<elements>>].  A pack that would run past the   *)
(* n bytes of the buffer is an MPI error when the library checks its       *)
(* arguments (checked); when it does not, the bytes are written past the   *)
(* buffer and the position moves past n.                                   *)
(***************************************************************************)
NewPack == [st |-> eslOK, pos |-> 0, items |-> <<>>]

MPI_Pack(ps, vals, t, n, checked) ==
  IF ps.st # eslOK THEN ps
  ELSE IF checked /\ ps.pos + MPI_Pack_size(Len(vals), t) > n
       THEN [ps EXCEPT !.st = eslESYS]
       ELSE [ps EXCEPT !.pos = @ + MPI_Pack_size(Len(vals), t),
                       !.items = Append(@, [t |-> t, v |-> vals])]

\* A run of single-element MPI_Pack calls, in order: fields[k] = <<type, value>>.
RECURSIVE PackFields(_, _, _, _)
PackFields(ps, fields, n, checked) ==
  IF fields = <<>> THEN ps
  ELSE PackFields(MPI_Pack(ps, <<Head(fields)[2]>>, Head(fields)[1], n, checked),
                  Tail(fields), n, checked)

(***************************************************************************)
(* MPI_Unpack.  An unpack in progress is [st, pos, idx, out]: status, byte *)
(* position, index of the next item of the message and the element         *)
(* sequences read so far.  Reading past the n bytes given as the buffer    *)
(* length, or past what the message holds, is an MPI error.                *)
(***************************************************************************)
NewUnpack == [st |-> eslOK, pos |-> 0, idx |-> 1, out |-> <<>>]

MPI_Unpack(us, items, n, count, t) ==
  IF us.st # eslOK THEN us
  ELSE IF \/ us.pos + MPI_Pack_size(count, t) > n
          \/ us.idx > Len(items)
          \/ items[us.idx].t # t
          \/ Len(items[us.idx].v) # count
       THEN [us EXCEPT !.st = eslESYS]
       ELSE [us EXCEPT !.pos = @ + MPI_Pack_size(count, t),
                       !.idx = @ + 1,
                       !.out = Append(@, items[us.idx].v)]

\* A run of single-element MPI_Unpack calls, in order: types[k] is a datatype.
RECURSIVE UnpackFields(_, _, _, _)
UnpackFields(us, items, n, types) ==
  IF types = <<>> THEN us
  ELSE UnpackFields(MPI_Unpack(us, items, n, 1, Head(types)), items, n, Tail(types))

(***************************************************************************)
(* Optional strings (easel's esl_mpi_PackOpt family, not part of this      *)
(* file): a presence flag, then a length and the character bytes when the  *)
(* string is present.  A string is [null |-> BOOLEAN, s |-> <<chars>>].    *)
(***************************************************************************)
NullStr == [null |-> TRUE, s |-> <<>>]
Str(chars) == [null |-> FALSE, s |-> chars]

esl_mpi_PackOptSize(str) ==
  IF str.null THEN MPI_Pack_size(1, "MPI_INT")
  ELSE MPI_Pack_size(1, "MPI_INT") + MPI_Pack_size(1, "MPI_INT")
       + MPI_Pack_size(Len(str.s), "MPI_CHAR")

esl_mpi_PackOpt(ps, str, n, checked) ==
  IF str.null THEN MPI_Pack(ps, <<0>>, "MPI_INT", n, checked)
  ELSE MPI_Pack(MPI_Pack(MPI_Pack(ps, <<1>>, "MPI_INT", n, checked),
                         <<Len(str.s)>>, "MPI_INT", n, checked),
                str.s, "MPI_CHAR", n, checked)

\* Leaves the string read as the last element of out: <<>> stands for absent,
\* <<chars>> (one element holding the characters) for present.
esl_mpi_UnpackOpt(us, items, n) ==
  LET f == MPI_Unpack(us, items, n, 1, "MPI_INT") IN
  IF f.st # eslOK THEN f
  ELSE LET flag == f.out[Len(f.out)][1]
           f0   == [f EXCEPT !.out = SubSeq(@, 1, Len(@) - 1)] IN
       IF flag = 0 THEN [f0 EXCEPT !.out = Append(@, <<>>)]
       ELSE LET l == MPI_Unpack(f0, items, n, 1, "MPI_INT") IN
            IF l.st # eslOK THEN l
            ELSE LET len == l.out[Len(l.out)][1]
                     l0  == [l EXCEPT !.out = SubSeq(@, 1, Len(@) - 1)]
                     c   == MPI_Unpack(l0, items, n, len, "MPI_CHAR") IN
                 IF c.st # eslOK THEN c
                 ELSE [c EXCEPT !.out = Append(SubSeq(@, 1, Len(@) - 1),
                                               <<@[Len(@)]>>)]

OptStr(o) == IF o = <<>> THEN NullStr ELSE Str(o[1])

(***************************************************************************)
(* P7_HIT.  The 17 fixed fields in the order they are packed, with their   *)
(* datatypes; then name, acc and desc as optional strings.                 *)
(***************************************************************************)
HitFields(hit) ==
  << <<"MPI_DOUBLE", hit.sortkey>>,
     <<"MPI_FLOAT",  hit.score>>,
     <<"MPI_FLOAT",  hit.pre_score>>,
     <<"MPI_FLOAT",  hit.sum_score>>,
     <<"MPI_DOUBLE", hit.lnP>>,
     <<"MPI_DOUBLE", hit.pre_lnP>>,
     <<"MPI_DOUBLE", hit.sum_lnP>>,
     <<"MPI_FLOAT",  hit.nexpected>>,
     <<"MPI_INT",    hit.nregions>>,
     <<"MPI_INT",    hit.nclustered>>,
     <<"MPI_INT",    hit.noverlaps>>,
     <<"MPI_INT",    hit.nenvelopes>>,
     <<"MPI_INT",    hit.ndom>>,
     <<"MPI_INT",    hit.flags>>,
     <<"MPI_INT",    hit.nreported>>,
     <<"MPI_INT",    hit.nincluded>>,
     <<"MPI_INT",    hit.best_domain>> >>

\* A size computation that counts four of the five counters.
HitFixedSizeFourCounters ==
    MPI_Pack_size(1, "MPI_DOUBLE") + MPI_Pack_size(3, "MPI_FLOAT")
  + MPI_Pack_size(3, "MPI_DOUBLE") + MPI_Pack_size(1, "MPI_FLOAT")
  + MPI_Pack_size(4, "MPI_INT")    + MPI_Pack_size(4, "MPI_INT")

\* The six MPI_Pack_size terms of p7_hit_MPIPackSize.
HitFixedSize ==
    MPI_Pack_size(1, "MPI_DOUBLE") + MPI_Pack_size(3, "MPI_FLOAT")
  + MPI_Pack_size(3, "MPI_DOUBLE") + MPI_Pack_size(1, "MPI_FLOAT")
  + MPI_Pack_size(5, "MPI_INT")    + MPI_Pack_size(4, "MPI_INT")

p7_hit_MPIPackSize(hit) ==
    HitFixedSize
  + esl_mpi_PackOptSize(hit.name)
  + esl_mpi_PackOptSize(hit.acc)
  + esl_mpi_PackOptSize(hit.desc)

\* A hit packer that reports a position past the length as eslESYS.
p7_hit_MPIPackOverflowSys(hit, n, checked) ==
  LET f == PackFields(NewPack, HitFields(hit), n, checked)
      a == esl_mpi_PackOpt(f, hit.name, n, checked)
      b == esl_mpi_PackOpt(a, hit.acc,  n, checked)
      c == esl_mpi_PackOpt(b, hit.desc, n, checked)
  IN  IF c.st = eslOK /\ c.pos > n THEN [c EXCEPT !.st = eslESYS] ELSE c

\* Packs from position 0 into a buffer of n bytes.
p7_hit_MPIPack(hit, n, checked) ==
  LET f == PackFields(NewPack, HitFields(hit), n, checked)
      a == esl_mpi_PackOpt(f, hit.name, n, checked)
      b == esl_mpi_PackOpt(a, hit.acc,  n, checked)
      c == esl_mpi_PackOpt(b, hit.desc, n, checked)
  IN  IF c.st = eslOK /\ c.pos > n THEN [c EXCEPT !.st = eslEMEM] ELSE c

HitTypes ==
  << "MPI_DOUBLE", "MPI_FLOAT", "MPI_FLOAT", "MPI_FLOAT",
     "MPI_DOUBLE", "MPI_DOUBLE", "MPI_DOUBLE", "MPI_FLOAT",
     "MPI_INT", "MPI_INT", "MPI_INT", "MPI_INT", "MPI_INT",
     "MPI_INT", "MPI_INT", "MPI_INT", "MPI_INT" >>

\* The hit the unpacked elements are stored into; o = the unpack's out.  The
\* domain array hit->dcl is not part of the message.
HitOfFields(o) ==
  [ sortkey     |-> o[1][1],  score      |-> o[2][1],  pre_score  |-> o[3][1],
    sum_score   |-> o[4][1],  lnP        |-> o[5][1],  pre_lnP    |-> o[6][1],
    sum_lnP     |-> o[7][1],  nexpected  |-> o[8][1],  nregions   |-> o[9][1],
    nclustered  |-> o[10][1], noverlaps  |-> o[11][1], nenvelopes |-> o[12][1],
    ndom        |-> o[13][1], flags      |-> o[14][1], nreported  |-> o[15][1],
    nincluded   |-> o[16][1], best_domain |-> o[17][1],
    name |-> OptStr(o[18]), acc |-> OptStr(o[19]), desc |-> OptStr(o[20]),
    dcl  |-> <<>> ]

\* Unpacks from position 0 of a buffer of n bytes holding items. strOK: the
\* allocations of the strings succeed.
p7_hit_MPIUnpack(items, n, strOK) ==
  LET f == UnpackFields(NewUnpack, items, n, HitTypes)
      a == esl_mpi_UnpackOpt(f, items, n)
      b == esl_mpi_UnpackOpt(a, items, n)
      c == esl_mpi_UnpackOpt(b, items, n)
  IN  IF c.st # eslOK THEN [st |-> c.st, pos |-> c.pos]
      ELSE IF ~strOK /\ (\E k \in 18..20 : c.out[k] # <<>>)
      THEN [st |-> eslEMEM, pos |-> c.pos]
      ELSE [st |-> eslOK, pos |-> c.pos, hit |-> HitOfFields(c.out)]

(***************************************************************************)
(* P7_DOMAIN and its P7_ALIDISPLAY.  ad.mem is the address of the string   *)
(* pool, ad.pool its memsize bytes; each of the thirteen references is     *)
(* NULL or an address inside the pool.  On the wire a reference is its     *)
(* offset from ad.mem, or -1.                                              *)
(***************************************************************************)
NULL == 0

RefNames == << "rfline", "mmline", "csline", "model", "mline", "aseq", "ppline",
               "hmmname", "hmmacc", "hmmdesc", "sqname", "sqacc", "sqdesc" >>

\* An offset computed without the test for NULL.
PackOffsetNoSentinel(ad, r) == ad.ref[r] - ad.mem

PackOffset(ad, r) == IF ad.ref[r] = NULL THEN -1 ELSE ad.ref[r] - ad.mem

DclFields(dcl) ==
  LET ad == dcl.ad IN
  << <<"MPI_INT",    dcl.ienv>>,
     <<"MPI_INT",    dcl.jenv>>,
     <<"MPI_INT",    dcl.iali>>,
     <<"MPI_INT",    dcl.jali>>,
     <<"MPI_FLOAT",  dcl.envsc>>,
     <<"MPI_FLOAT",  dcl.domcorrection>>,
     <<"MPI_FLOAT",  dcl.dombias>>,
     <<"MPI_FLOAT",  dcl.oasc>>,
     <<"MPI_FLOAT",  dcl.bitscore>>,
     <<"MPI_DOUBLE", dcl.lnP>>,
     <<"MPI_INT",    dcl.is_reported>>,
     <<"MPI_INT",    dcl.is_included>>,
     <<"MPI_INT",    PackOffset(ad, "rfline")>>,
     <<"MPI_INT",    PackOffset(ad, "mmline")>>,
     <<"MPI_INT",    PackOffset(ad, "csline")>>,
     <<"MPI_INT",    PackOffset(ad, "model")>>,
     <<"MPI_INT",    PackOffset(ad, "mline")>>,
     <<"MPI_INT",    PackOffset(ad, "aseq")>>,
     <<"MPI_INT",    PackOffset(ad, "ppline")>>,
     <<"MPI_INT",    ad.N>>,
     <<"MPI_INT",    PackOffset(ad, "hmmname")>>,
     <<"MPI_INT",    PackOffset(ad, "hmmacc")>>,
     <<"MPI_INT",    PackOffset(ad, "hmmdesc")>>,
     <<"MPI_INT",    ad.hmmfrom>>,
     <<"MPI_INT",    ad.hmmto>>,
     <<"MPI_INT",    ad.M>>,
     <<"MPI_INT",    PackOffset(ad, "sqname")>>,
     <<"MPI_INT",    PackOffset(ad, "sqacc")>>,
     <<"MPI_INT",    PackOffset(ad, "sqdesc")>>,
     <<"MPI_LONG",   ad.sqfrom>>,
     <<"MPI_LONG",   ad.sqto>>,
     <<"MPI_LONG",   ad.L>>,
     <<"MPI_INT",    ad.memsize>> >>

\* The eight MPI_Pack_size terms of p7_dcl_MPIPackSize.
p7_dcl_MPIPackSize(dcl) ==
    MPI_Pack_size(4, "MPI_INT")  + MPI_Pack_size(5, "MPI_FLOAT")
  + MPI_Pack_size(1, "MPI_DOUBLE") + MPI_Pack_size(2, "MPI_INT")
  + MPI_Pack_size(16, "MPI_INT") + MPI_Pack_size(3, "MPI_LONG")
  + MPI_Pack_size(1, "MPI_INT")  + MPI_Pack_size(dcl.ad.memsize, "MPI_CHAR")

\* Packs from position 0 into a buffer of n bytes.
p7_dcl_MPIPack(dcl, n, checked) ==
  LET f == PackFields(NewPack, DclFields(dcl), n, checked)
      m == MPI_Pack(f, dcl.ad.pool, "MPI_CHAR", n, checked)
  IN  IF m.st = eslOK /\ m.pos > n THEN [m EXCEPT !.st = eslEMEM] ELSE m

\* A decoder that reads sqfrom, sqto and L as MPI_INT.
DclTypesShortSeq ==
  << "MPI_INT", "MPI_INT", "MPI_INT", "MPI_INT",
     "MPI_FLOAT", "MPI_FLOAT", "MPI_FLOAT", "MPI_FLOAT", "MPI_FLOAT",
     "MPI_DOUBLE", "MPI_INT", "MPI_INT",
     "MPI_INT", "MPI_INT", "MPI_INT", "MPI_INT", "MPI_INT", "MPI_INT", "MPI_INT",
     "MPI_INT",
     "MPI_INT", "MPI_INT", "MPI_INT",
     "MPI_INT", "MPI_INT", "MPI_INT",
     "MPI_INT", "MPI_INT", "MPI_INT",
     "MPI_INT", "MPI_INT", "MPI_INT",
     "MPI_INT" >>

DclTypes ==
  << "MPI_INT", "MPI_INT", "MPI_INT", "MPI_INT",
     "MPI_FLOAT", "MPI_FLOAT", "MPI_FLOAT", "MPI_FLOAT", "MPI_FLOAT",
     "MPI_DOUBLE", "MPI_INT", "MPI_INT",
     "MPI_INT", "MPI_INT", "MPI_INT", "MPI_INT", "MPI_INT", "MPI_INT", "MPI_INT",
     "MPI_INT",
     "MPI_INT", "MPI_INT", "MPI_INT",
     "MPI_INT", "MPI_INT", "MPI_INT",
     "MPI_INT", "MPI_INT", "MPI_INT",
     "MPI_LONG", "MPI_LONG", "MPI_LONG",
     "MPI_INT" >>

\* A decoder that does not know the -1 sentinel.
UnpackRefNoSentinel(mem, off) == mem + off

\* A decoder that takes an offset as counted from 1.
UnpackRefFromOne(mem, off) == IF off = -1 THEN NULL ELSE mem + off + 1

UnpackRef(mem, off) == IF off = -1 THEN NULL ELSE mem + off

\* The domain the unpacked elements are stored into; o = the unpack's out,
\* o[33] the pool size, o[34] the pool bytes, mem the address of the new pool.
DclOfFields(o, mem) ==
  [ ienv  |-> o[1][1], jenv |-> o[2][1], iali |-> o[3][1], jali |-> o[4][1],
    envsc |-> o[5][1], domcorrection |-> o[6][1], dombias |-> o[7][1],
    oasc  |-> o[8][1], bitscore |-> o[9][1], lnP |-> o[10][1],
    is_reported |-> o[11][1], is_included |-> o[12][1],
    ad |-> [ mem |-> mem, memsize |-> o[33][1], pool |-> o[34],
             N |-> o[20][1], hmmfrom |-> o[24][1], hmmto |-> o[25][1],
             M |-> o[26][1],
             sqfrom |-> o[30][1], sqto |-> o[31][1], L |-> o[32][1],
             ref |-> [ rfline  |-> UnpackRef(mem, o[13][1]),
                       mmline  |-> UnpackRef(mem, o[14][1]),
                       csline  |-> UnpackRef(mem, o[15][1]),
                       model   |-> UnpackRef(mem, o[16][1]),
                       mline   |-> UnpackRef(mem, o[17][1]),
                       aseq    |-> UnpackRef(mem, o[18][1]),
                       ppline  |-> UnpackRef(mem, o[19][1]),
                       hmmname |-> UnpackRef(mem, o[21][1]),
                       hmmacc  |-> UnpackRef(mem, o[22][1]),
                       hmmdesc |-> UnpackRef(mem, o[23][1]),
                       sqname  |-> UnpackRef(mem, o[27][1]),
                       sqacc   |-> UnpackRef(mem, o[28][1]),
                       sqdesc  |-> UnpackRef(mem, o[29][1]) ] ] ]

\* An allocation that refuses a size of 0.
ESL_ALLOCNoZero(size, addr) == IF size = 0 THEN NULL ELSE addr

\* ESL_ALLOC(p, size) (easel, not part of this file): p is the block of size
\* bytes at addr, or NULL when the allocation fails (addr = NULL) and the
\* routine goes to ERROR with eslEMEM.  A size of 0 is served like any
\* other: the result is an object of its own with no bytes.
ESL_ALLOC(size, addr) == addr

\* Unpacks from position 0 of a buffer of n bytes holding items.  adOK: the
\* allocation of the P7_ALIDISPLAY succeeds; mem: the address the allocation
\* of the pool returns, NULL when it fails.
p7_dcl_MPIUnpack(items, n, adOK, mem) ==
  IF ~adOK THEN [st |-> eslEMEM, pos |-> 0]
  ELSE LET f == UnpackFields(NewUnpack, items, n, DclTypes) IN
       IF f.st # eslOK THEN [st |-> f.st, pos |-> f.pos]
       ELSE LET a == ESL_ALLOC(f.out[33][1], mem) IN
            IF a = NULL THEN [st |-> eslEMEM, pos |-> f.pos]
            ELSE LET m == MPI_Unpack(f, items, n, f.out[33][1], "MPI_CHAR") IN
                 IF m.st # eslOK THEN [st |-> m.st, pos |-> m.pos]
                 ELSE [st |-> eslOK, pos |-> m.pos, dcl |-> DclOfFields(m.out, a)]


(***************************************************************************)
(* P7_TOPHITS: [N, nreported, nincluded, unsrt], unsrt the hits in         *)
(* insertion order.                                                        *)
(***************************************************************************)
Max(a, b) == IF a > b THEN a ELSE b

RECURSIVE AllDomains(_)
AllDomains(hits) ==
  IF hits = <<>> THEN <<>> ELSE Head(hits).dcl \o AllDomains(Tail(hits))

\* A scan that keeps the domain it saw last, whatever its pool.
RECURSIVE ScanLargestNoCompare(_, _)
ScanLargestNoCompare(doms, acc) ==
  IF doms = <<>> THEN acc
  ELSE ScanLargestNoCompare(Tail(doms),
         [sz |-> Head(doms).ad.memsize, dcl |-> <<Head(doms)>>])

\* The scan of p7_tophits_MPISend for the domain with the largest pool:
\* acc = [sz, dcl], dcl = <<>> for NULL or <<the domain>>.
RECURSIVE ScanLargest(_, _)
ScanLargest(doms, acc) ==
  IF doms = <<>> THEN acc
  ELSE ScanLargest(Tail(doms),
         IF acc.sz <= Head(doms).ad.memsize
         THEN [sz |-> Head(doms).ad.memsize, dcl |-> <<Head(doms)>>]
         ELSE acc)

\* The byte count n p7_tophits_MPISend sizes its buffer to.
TophitsSize(c) ==
  LET scan == ScanLargest(AllDomains(c.unsrt), [sz |-> 0, dcl |-> <<>>])
      n1   == IF c.N > 0
              THEN IF scan.dcl # <<>>
                   THEN Max(p7_hit_MPIPackSize(c.unsrt[1]),
                            p7_dcl_MPIPackSize(scan.dcl[1]))
                   ELSE p7_hit_MPIPackSize(c.unsrt[1])
              ELSE 0
  IN  Max(n1, MPI_Pack_size(3, "MPI_LONG_LONG_INT"))

\* The three MPI_Pack calls of the envelope, from position 0.
EnvelopePack(c, n, checked) ==
  MPI_Pack(MPI_Pack(MPI_Pack(NewPack, <<c.N>>, "MPI_LONG_LONG_INT", n, checked),
                    <<c.nreported>>, "MPI_LONG_LONG_INT", n, checked),
           <<c.nincluded>>, "MPI_LONG_LONG_INT", n, checked)

\* The three MPI_Unpack calls of the envelope, from position 0.
EnvelopeUnpack(items, n) ==
  UnpackFields(NewUnpack, items, n,
               <<"MPI_LONG_LONG_INT", "MPI_LONG_LONG_INT", "MPI_LONG_LONG_INT">>)

\* The test before ESL_RALLOC: the buffer is NULL or n exceeds its capacity.
NeedsGrow(b, n) == b.null \/ n > b.nalloc

\* ESL_RALLOC(*buf, tmp, n): on success *buf is a block of n bytes; on
\* failure *buf is left as it was and the routine goes to ERROR.
ESL_RALLOC(b, n, ok) == IF ok THEN [b EXCEPT !.null = FALSE, !.size = n] ELSE b

\* A reallocation to n bytes whatever the capacity.
GrownAlways(b, n) == [ESL_RALLOC(b, n, TRUE) EXCEPT !.nalloc = n]

\* A reallocation that does not record the new capacity.
GrownNoRecord(b, n) == IF NeedsGrow(b, n) THEN ESL_RALLOC(b, n, TRUE) ELSE b

\* The buffer after lines 104-108: reallocated to n bytes when the test asks
\* for it, and *nalloc set to n.
Grown(b, n) ==
  IF NeedsGrow(b, n) THEN [ESL_RALLOC(b, n, TRUE) EXCEPT !.nalloc = n] ELSE b


(***************************************************************************)
(* The collections a sender is given.  They come from the search code,     *)
(* which is outside this file; the model draws them from shapes.  Field    *)
(* values are pairwise distinct within a record, so that a field stored in *)
(* the wrong place shows.                                                  *)
(***************************************************************************)
Senders  == {1, 2}        \* ranks of the sending processes; the receiver is rank 0
Receiver == 0
Tags     == {0, 1}

RefIdx(r) == CHOOSE k \in 1..Len(RefNames) : RefNames[k] = r
RefSet    == {RefNames[k] : k \in 1..Len(RefNames)}

Bytes(len, seed) == IF len <= 0 THEN <<>> ELSE [k \in 1..len |-> seed + k]

MkStr(len, seed) == IF len < 0 THEN NullStr ELSE Str(Bytes(len, seed))

\* A display whose pool of m bytes lies at address addr, with the references
\* in S present.
MkAd(addr, m, S, seed) ==
  [ mem |-> addr, memsize |-> m, pool |-> Bytes(m, seed + 50),
    N |-> seed + 21, hmmfrom |-> seed + 22, hmmto |-> seed + 23, M |-> seed + 24,
    sqfrom |-> seed + 25, sqto |-> seed + 26, L |-> seed + 27,
    ref |-> [r \in RefSet |->
               IF r \in S /\ m > 0 THEN addr + ((RefIdx(r) - 1) % m) ELSE NULL] ]

MkDcl(addr, shape, seed) ==
  [ ienv |-> seed + 1, jenv |-> seed + 2, iali |-> seed + 3, jali |-> seed + 4,
    envsc |-> seed + 5, domcorrection |-> seed + 6, dombias |-> seed + 7,
    oasc |-> seed + 8, bitscore |-> seed + 9, lnP |-> seed + 10,
    is_reported |-> seed + 11, is_included |-> seed + 12,
    ad |-> MkAd(addr, shape.m, shape.S, seed) ]

\* shape = [str |-> <<name, acc, desc lengths, -1 for NULL>>, doms |-> <<domain shapes>>]
MkHit(shape, seed) ==
  [ sortkey |-> seed + 1, score |-> seed + 2, pre_score |-> seed + 3,
    sum_score |-> seed + 4, lnP |-> seed + 5, pre_lnP |-> seed + 6,
    sum_lnP |-> seed + 7, nexpected |-> seed + 8, nregions |-> seed + 9,
    nclustered |-> seed + 10, noverlaps |-> seed + 11, nenvelopes |-> seed + 12,
    ndom |-> Len(shape.doms), flags |-> seed + 14, nreported |-> seed + 15,
    nincluded |-> seed + 16, best_domain |-> seed + 17,
    name |-> MkStr(shape.str[1], seed + 20),
    acc  |-> MkStr(shape.str[2], seed + 30),
    desc |-> MkStr(shape.str[3], seed + 40),
    dcl  |-> [j \in 1..Len(shape.doms) |->
                MkDcl(4096 * (seed + j), shape.doms[j], seed + 100 * j)] ]

\* The collection of sender p with the hit shapes shp.
MkTophits(p, shp) ==
  [ N |-> Len(shp), nreported |-> 10 * p + 1, nincluded |-> 10 * p + 2,
    unsrt |-> [i \in 1..Len(shp) |-> MkHit(shp[i], 10000 * p + 1000 * i)] ]

SeqsUpTo(S, n) == UNION {[1..k -> S] : k \in 0..n}

\* Domain shapes: an empty pool; a pool with only aseq; a pool with all
\* thirteen references.
DomEmpty == [m |-> 0, S |-> {}]
DomAseq  == [m |-> MaxPool, S |-> {"aseq"}]
DomAll   == [m |-> MaxPool, S |-> RefSet]

\* The domain lists of the protocol model: prefixes of <<aseq only, empty
\* pool, all references, ...>>.
DomPattern(j) == CASE j % 3 = 1 -> DomAseq [] j % 3 = 2 -> DomEmpty [] OTHER -> DomAll
DomLists == {[j \in 1..d |-> DomPattern(j)] : d \in 0..MaxDom}

\* Hit shapes of the protocol model: a hit without strings and 0..MaxDom
\* domains, or a hit with a MaxStr-long name and no domain.
StrNone == <<-1, -1, -1>>
HitShapes ==
       {[str |-> StrNone, doms |-> d] : d \in DomLists}
  \cup {[str |-> <<MaxStr, -1, -1>>, doms |-> <<>>]}

Collections(p) == {MkTophits(p, shp) : shp \in SeqsUpTo(HitShapes, MaxHits)}

\* The collections of the codec model: one hit, with every combination of
\* absent / empty / MaxStr-long name, acc and desc, or with one domain whose
\* pool has 0..MaxPool bytes and whose references are all absent, one
\* present, one absent or all present, or with MaxDom domains and strings.
StrLens == {-1, 0, MaxStr}
RefCombos ==
  {{}, RefSet} \cup {{r} : r \in RefSet} \cup {RefSet \ {r} : r \in RefSet}
\* Domain lists whose largest pool comes last, and whose pools all have the
\* largest size.
DomRising ==
  [j \in 1..MaxDom |-> [m |-> IF j = MaxDom THEN MaxPool ELSE MaxPool - 1,
                        S |-> {"aseq"}]]
DomTied == [j \in 1..MaxDom |-> [m |-> MaxPool, S |-> {RefNames[j]}]]

DataShapes ==
       {[str |-> <<a, b, c>>, doms |-> <<>>] : a \in StrLens, b \in StrLens, c \in StrLens}
  \cup {[str |-> StrNone, doms |-> <<[m |-> m, S |-> S]>>] :
          m \in 0..MaxPool, S \in RefCombos}
  \cup {[str |-> <<MaxStr, 0, -1>>, doms |-> [j \in 1..MaxDom |-> DomPattern(j)]]}
  \cup {[str |-> StrNone, doms |-> DomRising], [str |-> StrNone, doms |-> DomTied]}
DataCollections(p) ==
  {MkTophits(p, <<>>)} \cup {MkTophits(p, <<shp>>) : shp \in DataShapes}

\* What the second sender sends, when it sends: an empty collection.
SmallCollections(p) == {MkTophits(p, <<>>)}


(***************************************************************************)
(* State.                                                                  *)
(*   th[p]    the collection sender p is asked to send                     *)
(*   snd[p]   sender p inside p7_tophits_MPISend: where it is (pc, inx,    *)
(*            dom), its buffer and its capacity, its tag, the status       *)
(*            returned once pc = "done"                                    *)
(*   chan[p]  messages sent by p and not yet received, in send order       *)
(*   sent[p]  every message p handed to MPI_Send, in order (history)       *)
(*   rcv      the receiver inside p7_tophits_MPIRecv                       *)
(*   rlog     every MPI_Probe and MPI_Recv of the receiver (history)       *)
(*   faults   environment faults so far                                    *)
(***************************************************************************)
VARIABLES th, snd, chan, sent, rcv, rlog, faults

vars == <<th, snd, chan, sent, rcv, rlog, faults>>

\* A buffer is the pointer *buf (null or not), the capacity *nalloc the
\* caller holds, and the number of bytes the block was allocated with.
NullBuf   == [null |-> TRUE,  nalloc |-> 0, size |-> 0]
OldBuf    == [null |-> FALSE, nalloc |-> BigBuf, size |-> BigBuf]

SndStart(b, t) ==
  [pc |-> "start", inx |-> 0, dom |-> 0, status |-> eslOK, buf |-> b, tag |-> t,
   why |-> "none", call |-> 1]
SndIdle ==
  [pc |-> "idle", inx |-> 0, dom |-> 0, status |-> eslOK, buf |-> NullBuf, tag |-> 0,
   why |-> "none", call |-> 1]

RcvStart(source, tag, b) ==
  [ pc |-> "probe", lvl |-> "env", asksrc |-> source, asktag |-> tag,
    source |-> source, tag |-> tag, n |-> 0, nhits |-> 0,
    status |-> eslOK, buf |-> b,
    th |-> <<>>, ret |-> "untouched", destroyed |-> FALSE, fault |-> "none",
    dropped |-> <<>> ]

\* The receiver with the fault of this step, if there is one, on record.
Noted(r, f) == IF f = "none" THEN r ELSE [r EXCEPT !.fault = f]

\* The environment may inject a fault of one of these kinds in this step.
Faults(kinds) == {"none"} \cup (IF faults < MaxFaults THEN kinds ELSE {})
Charge(f) == faults' = IF f = "none" THEN faults ELSE faults + 1

(***************************************************************************)
(* Sender.                                                                 *)
(***************************************************************************)
Msg(p, n, ps) == [src |-> p, tag |-> snd[p].tag, len |-> n, items |-> ps.items]

Logged(p, kind, i, j, n, ps) ==
  [ kind |-> kind, hit |-> i, dom |-> j, dest |-> Receiver, tag |-> snd[p].tag,
    len |-> n, packed |-> ps.pos, call |-> snd[p].call ]

\* A sender that notes a failure and carries on where it was.
SndReturnCarryOn(p, st, b, why) ==
  snd' = [snd EXCEPT ![p] = [@ EXCEPT !.buf = b, !.why = why]]

\* The error return of a send routine: status st, the buffer as it is, and
\* the call that failed (why).
SndReturn(p, st, b, why) ==
  snd' = [snd EXCEPT ![p] = [@ EXCEPT !.pc = "done", !.status = st, !.buf = b,
                                      !.why = why]]

\* Which call a failed pack routine failed in: its final test of the
\* position against the length, or an MPI_Pack.
PackWhy(ps, n) == IF ps.pos > n THEN "overflow" ELSE "pack"

\* A send of the packed bytes only.
MPI_SendPacked(p, kind, i, j, n, ps) ==
  /\ chan' = [chan EXCEPT ![p] = Append(@, Msg(p, ps.pos, ps))]
  /\ sent' = [sent EXCEPT ![p] = Append(@, Logged(p, kind, i, j, ps.pos, ps))]

\* MPI_Send of the n bytes of the buffer, which holds the packed record ps.
MPI_Send(p, kind, i, j, n, ps) ==
  /\ chan' = [chan EXCEPT ![p] = Append(@, Msg(p, n, ps))]
  /\ sent' = [sent EXCEPT ![p] = Append(@, Logged(p, kind, i, j, n, ps))]

\* A sender that goes from a hit straight to the next hit.
SndAfterNoDomains(p, i, j) ==
  IF i < th[p].N
  THEN [snd[p] EXCEPT !.pc = "hit", !.inx = i + 1, !.dom = 0]
  ELSE [snd[p] EXCEPT !.pc = "done", !.status = eslOK]

\* Where the sender goes after hit i's message (j = 0) or its j-th domain.
SndAfter(p, i, j) ==
  LET c == th[p] IN
  IF j < c.unsrt[i].ndom
  THEN [snd[p] EXCEPT !.pc = "dcl", !.inx = i, !.dom = j + 1]
  ELSE IF i < c.N
       THEN [snd[p] EXCEPT !.pc = "hit", !.inx = i + 1, !.dom = 0]
       ELSE [snd[p] EXCEPT !.pc = "done", !.status = eslOK]

\* p7_tophits_MPISend up to and including the envelope's MPI_Send.
TophitsSend(p) ==
  /\ snd[p].pc = "start"
  /\ \E f \in Faults({"packsize", "ralloc", "send"}), checked \in BOOLEAN :
       LET c  == th[p]
           n  == TophitsSize(c)
           b  == Grown(snd[p].buf, n)
           ps == EnvelopePack(c, n, checked)
       IN  /\ Charge(f)
           /\ f = "ralloc" => NeedsGrow(snd[p].buf, n)
           /\ CASE f = "packsize" ->
                     SndReturn(p, eslESYS, snd[p].buf, "packsize") /\ UNCHANGED <<chan, sent>>
                [] f = "ralloc" ->
                     SndReturn(p, eslEMEM, ESL_RALLOC(snd[p].buf, n, FALSE), "ralloc")
                     /\ UNCHANGED <<chan, sent>>
                [] f = "send" \/ ps.st # eslOK ->
                     SndReturn(p, eslESYS, b, IF f = "send" THEN "send" ELSE "pack")
                     /\ UNCHANGED <<chan, sent>>
                [] OTHER ->
                     /\ MPI_Send(p, "env", 0, 0, n, ps)
                     /\ snd' = [snd EXCEPT ![p] =
                          IF c.N = 0
                          THEN [@ EXCEPT !.pc = "done", !.status = eslOK, !.buf = b]
                          ELSE [@ EXCEPT !.pc = "hit", !.inx = 1, !.buf = b]]
  /\ UNCHANGED <<th, rcv, rlog>>

\* p7_hit_MPISend up to and including the hit's MPI_Send.
HitSend(p) ==
  /\ snd[p].pc = "hit"
  /\ \E f \in Faults({"send"}), checked \in BOOLEAN :
       LET i  == snd[p].inx
           n  == snd[p].buf.nalloc
           ps == p7_hit_MPIPack(th[p].unsrt[i], n, checked)
       IN  /\ Charge(f)
           /\ f = "send" => ps.st = eslOK
           /\ CASE ps.st # eslOK ->
                     SndReturn(p, ps.st, snd[p].buf, PackWhy(ps, n))
                     /\ UNCHANGED <<chan, sent>>
                [] f = "send" ->
                     SndReturn(p, eslESYS, snd[p].buf, "send") /\ UNCHANGED <<chan, sent>>
                [] OTHER ->
                     /\ MPI_Send(p, "hit", i, 0, n, ps)
                     /\ snd' = [snd EXCEPT ![p] = SndAfter(p, i, 0)]
  /\ UNCHANGED <<th, rcv, rlog>>

\* p7_dcl_MPISend.
DclSend(p) ==
  /\ snd[p].pc = "dcl"
  /\ \E f \in Faults({"send"}), checked \in BOOLEAN :
       LET i  == snd[p].inx
           j  == snd[p].dom
           n  == snd[p].buf.nalloc
           ps == p7_dcl_MPIPack(th[p].unsrt[i].dcl[j], n, checked)
       IN  /\ Charge(f)
           /\ f = "send" => ps.st = eslOK
           /\ CASE ps.st # eslOK ->
                     SndReturn(p, ps.st, snd[p].buf, PackWhy(ps, n))
                     /\ UNCHANGED <<chan, sent>>
                [] f = "send" ->
                     SndReturn(p, eslESYS, snd[p].buf, "send") /\ UNCHANGED <<chan, sent>>
                [] OTHER ->
                     /\ MPI_Send(p, "dcl", i, j, n, ps)
                     /\ snd' = [snd EXCEPT ![p] = SndAfter(p, i, j)]
  /\ UNCHANGED <<th, rcv, rlog>>


(***************************************************************************)
(* Receiver.                                                               *)
(***************************************************************************)
TagMatches(tag, m) == tag = MPI_ANY_TAG \/ m.tag = tag

\* Index of the first message of queue q that a request for tag matches, 0
\* if there is none (messages of one sender do not overtake each other).
FirstMatch(q, tag) ==
  IF \E k \in 1..Len(q) : TagMatches(tag, q[k])
  THEN CHOOSE k \in 1..Len(q) :
         /\ TagMatches(tag, q[k])
         /\ \A l \in 1..(k - 1) : ~TagMatches(tag, q[l])
  ELSE 0

\* MPI_Probe(source, tag): the senders a matching message is pending from.
Pending(source, tag) ==
  {p \in Senders : /\ source = MPI_ANY_SOURCE \/ p = source
                   /\ FirstMatch(chan[p], tag) # 0}

Without(q, k) == SubSeq(q, 1, k - 1) \o SubSeq(q, k + 1, Len(q))

\* An error path that returns the status and nothing else.
RcvFailKeep(r, st) == [r EXCEPT !.pc = "done", !.status = st]

\* The ERROR path of p7_tophits_MPIRecv: the collection, if one exists, is
\* destroyed and *ret_th is NULL.  dropped keeps what the collection was
\* when it was handed to p7_tophits_Destroy.
RcvFail(r, st) ==
  [r EXCEPT !.pc = "done", !.status = st, !.ret = "NULL",
            !.destroyed = (r.th # <<>>), !.th = <<>>, !.dropped = r.th]

\* The end of p7_tophits_MPIRecv's loop: the collection is handed back.
RcvReturn(r) == [r EXCEPT !.pc = "done", !.status = eslOK, !.ret = "th"]

\* p7_tophits_CreateNextHit: one more hit slot in the collection.
CreateNextHit(r) == [r EXCEPT !.th[1].N = @ + 1]

\* What an indeterminate status can hold: the status of a failed MPI_Probe
\* is never written.
GarbageCounts == {0, BigBuf}

\* A probe step that pins the source and leaves the tag as it was asked for.
ProbeStepNoTagPin(r, f, src, tag, n) ==
  IF r.tag # MPI_ANY_TAG /\ tag # r.tag THEN RcvFail(r, eslFAIL)
  ELSE IF r.source # MPI_ANY_SOURCE /\ src # r.source THEN RcvFail(r, eslFAIL)
  ELSE IF f = "ralloc" THEN RcvFail([r EXCEPT !.source = src], eslEMEM)
  ELSE [r EXCEPT !.source = src, !.n = n, !.buf = Grown(r.buf, n), !.pc = "recv"]

\* A probe step that does not compare the status with the request.
ProbeStepUnchecked(r, f, src, tag, n) ==
  IF f = "ralloc" THEN RcvFail([r EXCEPT !.source = src, !.tag = tag], eslEMEM)
  ELSE [r EXCEPT !.source = src, !.tag = tag, !.n = n,
                 !.buf = Grown(r.buf, n), !.pc = "recv"]

\* A probe step that checks the status and leaves source and tag as they
\* were asked for.
ProbeStepNoPin(r, f, src, tag, n) ==
  IF r.tag # MPI_ANY_TAG /\ tag # r.tag THEN RcvFail(r, eslFAIL)
  ELSE IF r.source # MPI_ANY_SOURCE /\ src # r.source THEN RcvFail(r, eslFAIL)
  ELSE IF f = "ralloc" THEN RcvFail(r, eslEMEM)
  ELSE [r EXCEPT !.n = n, !.buf = Grown(r.buf, n), !.pc = "recv"]

\* Lines 165-187, 256-278 and 660-682: the probe, the check of the status
\* against the request, the pinning of source and tag, and the growth of the
\* buffer.  r is the receiver after what precedes the probe.
ProbeStep(r, f, src, tag, n) ==
  IF r.tag # MPI_ANY_TAG /\ tag # r.tag THEN RcvFail(r, eslFAIL)
  ELSE IF r.source # MPI_ANY_SOURCE /\ src # r.source THEN RcvFail(r, eslFAIL)
  ELSE IF f = "ralloc"
       THEN RcvFail([r EXCEPT !.source = src, !.tag = tag,
                              !.buf = ESL_RALLOC(r.buf, n, FALSE)], eslEMEM)
  ELSE [r EXCEPT !.source = src, !.tag = tag, !.n = n,
                 !.buf = Grown(r.buf, n), !.pc = "recv"]

\* The history entry of an MPI_Probe: what was asked for (reqsrc, reqtag),
\* what the status reports (src, tag, n), the buffer at the call, and the
\* senders a message of which was waiting at the receiver.
Probed(ok, src, tag, n) ==
  [ ev |-> "probe", ok |-> ok, lvl |-> rcv.lvl, reqsrc |-> rcv.source,
    reqtag |-> rcv.tag, src |-> src, tag |-> tag, n |-> n, buf |-> rcv.buf,
    waiting |-> {p \in Senders : chan[p] # <<>>} ]

\* The history entry of an MPI_Recv that took message m, of len bytes with
\* the packed items, off the channel into the buffer buf, asking for n bytes.
Received(ok, m) ==
  [ ev |-> "recv", ok |-> ok, lvl |-> rcv.lvl, reqsrc |-> rcv.source,
    reqtag |-> rcv.tag, src |-> m.src, tag |-> m.tag, n |-> rcv.n, buf |-> rcv.buf,
    waiting |-> {p \in Senders : chan[p] # <<>>}, len |-> m.len, items |-> m.items ]

Probe ==
  /\ rcv.pc = "probe"
  /\ \E f \in Faults({"nexthit", "probe", "ralloc"}) :
       /\ Charge(f)
       /\ f = "nexthit" => rcv.lvl = "hit"
       /\ LET r == Noted(IF rcv.lvl = "hit" THEN CreateNextHit(rcv) ELSE rcv, f) IN
          IF f = "nexthit"
          THEN /\ rcv' = RcvFail(Noted(rcv, f), eslEMEM)
               /\ UNCHANGED rlog
          ELSE IF f = "probe"
          THEN \E src \in Senders, tag \in Tags, n \in GarbageCounts :
                 /\ rcv' = ProbeStep(r, f, src, tag, n)
                 /\ rlog' = Append(rlog, Probed(FALSE, src, tag, n))
          ELSE \E p \in Pending(rcv.source, rcv.tag) :
                 LET m == chan[p][FirstMatch(chan[p], rcv.tag)] IN
                 /\ f = "ralloc" => NeedsGrow(rcv.buf, m.len)
                 /\ rcv' = ProbeStep(r, f, p, m.tag, m.len)
                 /\ rlog' = Append(rlog, Probed(TRUE, p, m.tag, m.len))
  /\ UNCHANGED <<th, snd, chan, sent>>

\* Address of the pool allocated for domain j of hit i.
NewPool(i, j) == 4096 * (1000 + 10 * i + j)

\* An envelope decoder that waits for a hit whatever the count.
EnvelopeDecodeAwaitHit(r, f, items) ==
  IF f = "create" THEN RcvFail(r, eslEMEM)
  ELSE LET t == [r EXCEPT !.th = << [N |-> 0, nreported |-> 0, nincluded |-> 0,
                                     unsrt |-> <<>>] >>]
           u == EnvelopeUnpack(items, r.n) IN
       IF u.st # eslOK THEN RcvFail(t, eslESYS)
       ELSE [t EXCEPT !.nhits = u.out[1][1],
                      !.th[1].nreported = u.out[2][1],
                      !.th[1].nincluded = u.out[3][1],
                      !.pc = "probe", !.lvl = "hit"]

\* After the envelope's MPI_Recv: p7_tophits_Create and the three MPI_Unpack.
EnvelopeDecode(r, f, items) ==
  IF f = "create" THEN RcvFail(r, eslEMEM)
  ELSE LET t == [r EXCEPT !.th = << [N |-> 0, nreported |-> 0, nincluded |-> 0,
                                     unsrt |-> <<>>] >>]
           u == EnvelopeUnpack(items, r.n) IN
       IF u.st # eslOK THEN RcvFail(t, eslESYS)
       ELSE LET v == [t EXCEPT !.nhits = u.out[1][1],
                               !.th[1].nreported = u.out[2][1],
                               !.th[1].nincluded = u.out[3][1]] IN
            IF 0 < v.nhits
            THEN [v EXCEPT !.pc = "probe", !.lvl = "hit"]
            ELSE RcvReturn(v)

\* A receiver that asks for a domain after every hit.
RcvAfterAlwaysDomain(r) ==
  LET c == r.th[1]
      h == c.unsrt[Len(c.unsrt)] IN
  IF Len(h.dcl) < h.ndom \/ h.dcl = <<>> THEN [r EXCEPT !.pc = "probe", !.lvl = "dcl"]
  ELSE IF Len(c.unsrt) < r.nhits THEN [r EXCEPT !.pc = "probe", !.lvl = "hit"]
  ELSE RcvReturn(r)

\* Where the receiver goes once the last hit has ndom domains or has all of
\* them: the next hit, or the return.
RcvAfter(r) ==
  LET c == r.th[1]
      h == c.unsrt[Len(c.unsrt)] IN
  IF Len(h.dcl) < h.ndom THEN [r EXCEPT !.pc = "probe", !.lvl = "dcl"]
  ELSE IF Len(c.unsrt) < r.nhits THEN [r EXCEPT !.pc = "probe", !.lvl = "hit"]
  ELSE RcvReturn(r)

\* After the hit's MPI_Recv: p7_hit_MPIUnpack and the allocation of hit->dcl.
HitDecode(r, f, items) ==
  LET u == p7_hit_MPIUnpack(items, r.n, f # "stralloc") IN
  IF u.st # eslOK THEN RcvFail(r, u.st)
  ELSE IF ESL_ALLOC(u.hit.ndom, IF f = "dclalloc" THEN NULL ELSE 1) = NULL
       THEN RcvFail(r, eslEMEM)
  ELSE RcvAfter([r EXCEPT !.th[1].unsrt = Append(@, u.hit)])

\* After the domain's MPI_Recv: p7_dcl_MPIUnpack, which is given the
\* capacity of the buffer as its length.
DclDecode(r, f, items) ==
  LET i == Len(r.th[1].unsrt)
      j == Len(r.th[1].unsrt[i].dcl) + 1
      u == p7_dcl_MPIUnpack(items, r.buf.nalloc, f # "adalloc",
                            IF f = "memalloc" THEN NULL ELSE NewPool(i, j)) IN
  IF u.st # eslOK THEN RcvFail(r, u.st)
  ELSE RcvAfter([r EXCEPT !.th[1].unsrt[i].dcl = Append(@, u.dcl)])

\* A domain decoded from bytes that are not a packed domain.
StaleDcl == MkDcl(NewPool(0, 0), DomEmpty, 90000)

\* The bytes of the fields every packed domain has, memsize included.
RECURSIVE SumWidths(_)
SumWidths(types) ==
  IF types = <<>> THEN 0 ELSE Width(Head(types)) + SumWidths(Tail(types))
DclLeast == SumWidths(DclTypes)

\* p7_dcl_MPIUnpack on a buffer that a truncated MPI_Recv did not fill, or
\* that holds a record of another kind: the bytes decoded are not the packed
\* domain.  A capacity below the fixed fields makes an MPI_Unpack fail;
\* otherwise the outcome is indeterminate.
StaleDecodes(r) ==
  LET i == Len(r.th[1].unsrt) IN
  IF r.buf.nalloc < DclLeast THEN { RcvFail(r, eslESYS) }
  ELSE { RcvFail(r, eslESYS), RcvFail(r, eslEMEM),
         RcvAfter([r EXCEPT !.th[1].unsrt[i].dcl = Append(@, StaleDcl)]) }

\* What a message holds, told from the datatypes of its leading items.
TypesOf(items) == [k \in 1..Len(items) |-> items[k].t]
HoldsHit(items) ==
  Len(items) >= Len(HitTypes) /\ SubSeq(TypesOf(items), 1, Len(HitTypes)) = HitTypes
HoldsDcl(items) ==
  Len(items) >= Len(DclTypes) /\ SubSeq(TypesOf(items), 1, Len(DclTypes)) = DclTypes

\* The bytes of the fields every packed hit has: the seventeen numbers and
\* the three presence flags of the strings.
HitLeast == HitFixedSize + 3 * MPI_Pack_size(1, "MPI_INT")

\* A hit decoded from bytes that are not a packed hit.
StaleHit == MkHit([str |-> StrNone, doms |-> <<>>], 90000)

\* p7_hit_MPIUnpack on the n bytes of a message that is not a packed hit:
\* MPI_Unpack reads whatever bytes are there, the packed record of another
\* kind and behind it what the sender's buffer held, and the outcome is
\* indeterminate.
StaleHitDecodes(r) ==
  { RcvFail(r, eslESYS), RcvFail(r, eslEMEM),
    RcvAfter([r EXCEPT !.th[1].unsrt = Append(@, StaleHit)]) }

\* MPI_Recv of n bytes from the pinned source and tag, then the decoding.  A
\* message longer than n is truncated: the call fails, its return value is
\* not looked at, and the buffer keeps what it held.  A message that holds
\* a record of another kind than the one asked for is decoded all the same
\* when it has the bytes.
Recv ==
  /\ rcv.pc = "recv"
  /\ \E p \in Pending(rcv.source, rcv.tag) :
     LET k == FirstMatch(chan[p], rcv.tag)
         m == chan[p][k]
         trunc == m.len > rcv.n
     IN  /\ chan' = [chan EXCEPT ![p] = Without(@, k)]
         /\ rlog' = Append(rlog, Received(~trunc, m))
         /\ \E f \in Faults(CASE rcv.lvl = "env" -> {"create"}
                              [] rcv.lvl = "hit" -> {"stralloc", "dclalloc"}
                              [] rcv.lvl = "dcl" -> {"adalloc", "memalloc"}) :
              /\ Charge(f)
              /\ LET r == Noted(rcv, f) IN
                 CASE rcv.lvl = "env" -> rcv' = EnvelopeDecode(r, f, m.items)
                   [] rcv.lvl = "hit" ->
                        IF ~trunc /\ ~HoldsHit(m.items) /\ rcv.n >= HitLeast
                        THEN rcv' \in StaleHitDecodes(r)
                        ELSE rcv' = HitDecode(r, f, m.items)
                   [] rcv.lvl = "dcl" ->
                        IF trunc \/ ~HoldsDcl(m.items) THEN rcv' \in StaleDecodes(r)
                        ELSE rcv' = DclDecode(r, f, m.items)
  /\ UNCHANGED <<th, snd, sent>>

(***************************************************************************)
(* Specifications.                                                         *)
(***************************************************************************)
InitWith(C1, C2, Second, SndBufs, RcvBufs, Sources, RTags, budget) ==
  /\ \E c1 \in C1, c2 \in C2 : th = (1 :> c1) @@ (2 :> c2)
  /\ \E b \in SndBufs, second \in Second, t2 \in Tags :
       /\ second \/ t2 = 0
       /\ snd = (1 :> SndStart(b, 0)) @@
                (2 :> IF second THEN SndStart(NullBuf, t2) ELSE SndIdle)
  /\ chan = [p \in Senders |-> <<>>]
  /\ sent = [p \in Senders |-> <<>>]
  /\ \E s \in Sources, t \in RTags, b \in RcvBufs : rcv = RcvStart(s, t, b)
  /\ rlog = <<>>
  /\ faults \in {MaxFaults - budget}

Next ==
  \/ \E p \in Senders : TophitsSend(p)
  \/ \E p \in Senders : HitSend(p)
  \/ \E p \in Senders : DclSend(p)
  \/ Probe
  \/ Recv

\* Two senders and a receiver over a fault-free channel: sender 1 sends any
\* collection from a fresh or a left-over buffer, sender 2 may send an empty
\* collection on either tag, the receiver asks for any or for sender 1, on
\* any tag or on tag 0, with no buffer yet.
Init ==
  InitWith(Collections(1), SmallCollections(2), BOOLEAN,
           {NullBuf, OldBuf}, {NullBuf},
           {MPI_ANY_SOURCE, 1}, {MPI_ANY_TAG, 0}, 0)

Spec == Init /\ [][Next]_vars

\* One sender and a receiver, with up to MaxFaults failed MPI calls or
\* allocations.
InitFaults ==
  InitWith(Collections(1), SmallCollections(2), {FALSE},
           {NullBuf, OldBuf}, {NullBuf},
           {MPI_ANY_SOURCE, 1}, {MPI_ANY_TAG, 0}, MaxFaults)

SpecFaults == InitFaults /\ [][Next]_vars

\* One sender and a receiver without faults, over the collections of the
\* codec model.
InitData ==
  InitWith(DataCollections(1), SmallCollections(2), {FALSE},
           {NullBuf, OldBuf}, {NullBuf},
           {MPI_ANY_SOURCE}, {MPI_ANY_TAG}, 0)

SpecData == InitData /\ [][Next]_vars

\* One sender and the receiver of its transfer, without faults, each running
\* on its own processor: a sender that can make a step of its call ends up
\* making it, and so does the receiver, whose MPI_Probe and MPI_Recv return
\* once a matching message waits.
InitLive ==
  InitWith(Collections(1), SmallCollections(2), {FALSE},
           {NullBuf, OldBuf}, {NullBuf},
           {MPI_ANY_SOURCE, 1}, {MPI_ANY_TAG, 0}, 0)

SenderStep == \E p \in Senders : TophitsSend(p) \/ HitSend(p) \/ DclSend(p)

ReceiverStep == Probe \/ Recv

SpecLive ==
  InitLive /\ [][Next]_vars /\ WF_vars(SenderStep) /\ WF_vars(ReceiverStep)

\* One more call of p7_tophits_MPISend by a sender whose call has returned,
\* with success or not: the same collection again or an empty one, on the
\* same tag, with the buffer the caller holds.
AgainCollections(p) == {th[p], MkTophits(p, <<>>)}

SendAgain(p) ==
  /\ snd[p].pc = "done"
  /\ snd[p].call < MaxCalls
  /\ \E c \in AgainCollections(p) : th' = [th EXCEPT ![p] = c]
  /\ snd' = [snd EXCEPT ![p] = [SndStart(snd[p].buf, snd[p].tag)
                                  EXCEPT !.call = snd[p].call + 1]]
  /\ UNCHANGED <<chan, sent, rcv, rlog, faults>>

NextAgain == Next \/ \E p \in Senders : SendAgain(p)

\* One sender that calls p7_tophits_MPISend up to MaxCalls times, and the
\* receiver of one collection, without faults.
InitAgain ==
  InitWith(Collections(1), SmallCollections(2), {FALSE},
           {NullBuf, OldBuf}, {NullBuf, OldBuf},
           {MPI_ANY_SOURCE, 1}, {MPI_ANY_TAG, 0}, 0)

SpecAgain == InitAgain /\ [][NextAgain]_vars

\* Two senders that each send a collection of hits with and without a
\* domain to the receiver on the same tag, from buffers with room, while the
\* receiver asks for any source.
PeerShapes == {[str |-> StrNone, doms |-> d] : d \in {<<>>, <<DomAseq>>}}
PeerCollections(p) == {MkTophits(p, shp) : shp \in SeqsUpTo(PeerShapes, MaxHits)}

InitPeers ==
  /\ \E c1 \in PeerCollections(1), c2 \in PeerCollections(2) :
       th = (1 :> c1) @@ (2 :> c2)
  /\ snd = (1 :> SndStart(OldBuf, 0)) @@ (2 :> SndStart(OldBuf, 0))
  /\ chan = [p \in Senders |-> <<>>]
  /\ sent = [p \in Senders |-> <<>>]
  /\ \E t \in {MPI_ANY_TAG, 0} : rcv = RcvStart(MPI_ANY_SOURCE, t, NullBuf)
  /\ rlog = <<>>
  /\ faults = MaxFaults

SpecPeers == InitPeers /\ [][Next]_vars

(***************************************************************************)
(* Properties.                                                             *)
(***************************************************************************)
\* A collection with every address replaced by what it stands for: a
\* reference is absent, or present at an offset into its pool.
CanonAd(ad) ==
  [ad EXCEPT !.mem = 0,
             !.ref = [r \in RefSet |->
                        IF ad.ref[r] = NULL THEN <<"absent", 0>>
                        ELSE <<"at", ad.ref[r] - ad.mem>>]]
CanonDcl(d) == [d EXCEPT !.ad = CanonAd(d.ad)]
CanonHit(h) == [h EXCEPT !.dcl = [j \in 1..Len(h.dcl) |-> CanonDcl(h.dcl[j])]]
CanonTophits(c) ==
  [c EXCEPT !.unsrt = [i \in 1..Len(c.unsrt) |-> CanonHit(c.unsrt[i])]]

SendOK(p) == snd[p].pc = "done" /\ snd[p].status = eslOK
RecvOK    == rcv.pc = "done" /\ rcv.status = eslOK /\ rcv.ret = "th"

\* The messages of kind k sender p has sent.
SentOf(p, k) == {x \in 1..Len(sent[p]) : sent[p][x].kind = k}

\* C1: when p7_tophits_MPISend of a collection and the p7_tophits_MPIRecv
\* that received from that sender both returned eslOK, the collection
\* handed back equals the one sent, field for field: counts, hits in order
\* with their fixed fields and optional strings, domains in order with
\* their pool bytes and each reference absent or at the same offset.
C1_RoundTrip ==
  \A p \in Senders :
    (SendOK(p) /\ RecvOK /\ rcv.source = p)
      => CanonTophits(rcv.th[1]) = CanonTophits(th[p])

\* A finished round trip of a hit with a present and an absent string and a
\* domain with a non-empty pool, a present and an absent reference.
C1_Witness ==
  /\ SendOK(1) /\ RecvOK /\ rcv.source = 1
  /\ rcv.th[1].N = 1
  /\ ~rcv.th[1].unsrt[1].name.null /\ rcv.th[1].unsrt[1].desc.null
  /\ rcv.th[1].unsrt[1].ndom = MaxDom
  /\ rcv.th[1].unsrt[1].dcl[1].ad.memsize = MaxPool
  /\ rcv.th[1].unsrt[1].dcl[1].ad.ref["aseq"] # NULL
  /\ rcv.th[1].unsrt[1].dcl[1].ad.ref["model"] = NULL

\* C2: the number of bytes p7_dcl_MPIPack writes from position 0 is at most
\* the value of p7_dcl_MPIPackSize, for every domain a sender has packed
\* and sent.
C2_DclSizeExact ==
  \A p \in Senders : \A x \in SentOf(p, "dcl") :
    sent[p][x].packed
      <= p7_dcl_MPIPackSize(th[p].unsrt[sent[p][x].hit].dcl[sent[p][x].dom])

\* C3: the number of bytes p7_hit_MPIPack writes from position 0 is at most
\* (and in fact equals) the value of p7_hit_MPIPackSize, for every hit a
\* sender has packed and sent, whatever strings are present.
C3_HitSizeExact ==
  \A p \in Senders : \A x \in SentOf(p, "hit") :
    sent[p][x].packed = p7_hit_MPIPackSize(th[p].unsrt[sent[p][x].hit])

\* A hit with a present name, an empty accession and no description has
\* been packed and sent.
C3_Witness ==
  \E x \in SentOf(1, "hit") :
    LET h == th[1].unsrt[sent[1][x].hit] IN
    /\ ~h.name.null /\ Len(h.name.s) = MaxStr
    /\ ~h.acc.null /\ h.acc.s = <<>>
    /\ h.desc.null

\* C4: after the sizing step of p7_tophits_MPISend and before the first hit
\* is packed, the capacity of the buffer is at least p7_hit_MPIPackSize of
\* every hit of the collection.
C4_SizingCoversHits ==
  \A p \in Senders :
    (snd[p].pc = "hit" /\ snd[p].inx = 1)
      => \A i \in 1..th[p].N :
           snd[p].buf.nalloc >= p7_hit_MPIPackSize(th[p].unsrt[i])

\* C5: when no send and no allocation fails, whatever the buffer the sender
\* starts with, p7_tophits_MPISend returns eslOK.
C5_NoOverflow ==
  \A p \in Senders : snd[p].pc = "done" => snd[p].status = eslOK

\* The messages of a whole transfer of sender p, in order.
ExpectHit(p, i) ==
  <<[kind |-> "hit", hit |-> i, dom |-> 0]>>
    \o [j \in 1..th[p].unsrt[i].ndom |-> [kind |-> "dcl", hit |-> i, dom |-> j]]

RECURSIVE ExpectFrom(_, _)
ExpectFrom(p, i) ==
  IF i > th[p].N THEN <<>> ELSE ExpectHit(p, i) \o ExpectFrom(p, i + 1)

Expected(p) == <<[kind |-> "env", hit |-> 0, dom |-> 0]>> \o ExpectFrom(p, 1)

RECURSIVE SumNdom(_)
SumNdom(hits) == IF hits = <<>> THEN 0 ELSE Head(hits).ndom + SumNdom(Tail(hits))

\* The bytes of the one record a message of that kind holds.
RecordBytes(p, e) ==
  CASE e.kind = "env" -> MPI_Pack_size(3, "MPI_LONG_LONG_INT")
    [] e.kind = "hit" -> p7_hit_MPIPack(th[p].unsrt[e.hit], BigBuf, TRUE).pos
    [] e.kind = "dcl" -> p7_dcl_MPIPack(th[p].unsrt[e.hit].dcl[e.dom], BigBuf, TRUE).pos

\* C6: the messages a sender has sent are, in order, the envelope, then for
\* each hit in insertion order the hit followed by its domains in order;
\* all go to the same destination on the same tag; each holds one record
\* packed from position 0; a send that returned eslOK has sent exactly
\* 1 + N + (sum of ndom) messages.
C6_SendOrder ==
  \A p \in Senders :
    /\ Len(sent[p]) <= Len(Expected(p))
    /\ \A x \in 1..Len(sent[p]) :
         /\ sent[p][x].kind = Expected(p)[x].kind
         /\ sent[p][x].hit  = Expected(p)[x].hit
         /\ sent[p][x].dom  = Expected(p)[x].dom
         /\ sent[p][x].dest = Receiver
         /\ sent[p][x].tag  = snd[p].tag
         /\ sent[p][x].packed = RecordBytes(p, Expected(p)[x])
    /\ SendOK(p) => Len(sent[p]) = 1 + th[p].N + SumNdom(th[p].unsrt)

\* A send of MaxHits hits, the first with MaxDom domains, returned eslOK.
C6_Witness ==
  /\ SendOK(1)
  /\ th[1].N = MaxHits
  /\ th[1].unsrt[1].ndom = MaxDom
  /\ Len(sent[1]) = 1 + MaxHits + MaxDom + th[1].unsrt[MaxHits].ndom

\* C7: a sender of an empty collection sends the envelope only and returns
\* eslOK; a receiver that received the envelope of an empty collection has
\* returned eslOK with an empty collection carrying the sender's
\* nreported and nincluded, after one probe and one receive, and no other
\* message has left the channel.
C7_Empty ==
  /\ \A p \in Senders :
       th[p].N = 0 =>
         /\ Len(sent[p]) <= 1
         /\ snd[p].pc = "done" =>
              /\ snd[p].status = eslOK
              /\ Len(sent[p]) = 1 /\ sent[p][1].kind = "env"
  /\ (Len(rlog) >= 2 /\ th[rcv.source].N = 0) =>
       /\ RecvOK
       /\ rcv.th[1].N = 0 /\ rcv.th[1].unsrt = <<>>
       /\ rcv.th[1].nreported = th[rcv.source].nreported
       /\ rcv.th[1].nincluded = th[rcv.source].nincluded
       /\ Len(rlog) = 2 /\ rlog[1].ev = "probe" /\ rlog[2].ev = "recv"
       /\ \A p \in Senders :
            Len(chan[p]) = Len(sent[p]) - (IF p = rcv.source THEN 1 ELSE 0)

\* The empty collection of sender 1 has been received while a message of
\* sender 2 waits.
C7_Witness ==
  /\ RecvOK /\ rcv.source = 1 /\ th[1].N = 0 /\ SendOK(1)
  /\ rcv.th[1].N = 0
  /\ chan[2] # <<>>

\* A message of a sender other than the one the first probe resolved to was
\* waiting at a later probe of the transfer.
OtherPeerArrived ==
  \E x \in 2..Len(rlog) :
    /\ rlog[x].ev = "probe"
    /\ \E q \in rlog[x].waiting : q # rlog[1].src

\* C8 as stated: after a wildcard receive resolved to peer P, a message
\* arriving from another peer during the transfer makes the receive fail
\* with eslFAIL.
C8_OtherPeerFails ==
  (/\ rcv.pc = "done"
   /\ rcv.asksrc = MPI_ANY_SOURCE \/ rcv.asktag = MPI_ANY_TAG
   /\ OtherPeerArrived)
    => rcv.status = eslFAIL

\* C8, amended: once the first probe resolved to peer P and tag T, every
\* later probe and receive asks for P and T and gets a message of P on T;
\* the messages of every other peer stay in the channel, undecoded; no
\* receive fails with eslFAIL because of them, and the collection handed
\* back is the one P sent.
C8_Pinned ==
  rlog # <<>> =>
    LET P == rlog[1].src
        T == rlog[1].tag IN
    /\ \A x \in 1..Len(rlog) : rlog[x].src = P /\ rlog[x].tag = T
    /\ \A x \in 2..Len(rlog) : rlog[x].reqsrc = P /\ rlog[x].reqtag = T
    /\ \A q \in Senders \ {P} : Len(chan[q]) = Len(sent[q])
    /\ rcv.status # eslFAIL
    /\ RecvOK => CanonTophits(rcv.th[1]) = CanonTophits(th[P])

\* A wildcard receive resolved to sender 1, a message of sender 2 waited at
\* a later probe, and the receive returned the collection of sender 1.
C8_Witness ==
  /\ RecvOK
  /\ rcv.asksrc = MPI_ANY_SOURCE /\ rcv.asktag = MPI_ANY_TAG
  /\ rcv.source = 1 /\ th[1].N > 0
  /\ OtherPeerArrived
  /\ chan[2] # <<>>

\* The status of a probe differs from a request that was not a wildcard.
Mismatch(e) ==
  \/ e.reqtag # MPI_ANY_TAG /\ e.tag # e.reqtag
  \/ e.reqsrc # MPI_ANY_SOURCE /\ e.src # e.reqsrc

\* Messages taken off the channel so far.
Consumed == (Len(sent[1]) - Len(chan[1])) + (Len(sent[2]) - Len(chan[2]))

\* C9: when the status of a probe differs from a specific source or tag
\* asked for, at collection, hit or domain level, that probe is the last
\* call of the receive (no retry, no MPI_Recv of the probed message), the
\* receive has returned eslFAIL, the buffer and its capacity are what they
\* were at the probe, and no collection is handed back.
C9_Mismatch ==
  \A x \in 1..Len(rlog) :
    (rlog[x].ev = "probe" /\ Mismatch(rlog[x])) =>
      /\ x = Len(rlog)
      /\ rcv.pc = "done" /\ rcv.status = eslFAIL
      /\ rcv.buf = rlog[x].buf
      /\ rcv.ret = "NULL" /\ rcv.th = <<>>
      /\ Consumed = Cardinality({y \in 1..Len(rlog) : rlog[y].ev = "recv"})

\* The probe for a domain reported another source or tag than the pinned one.
C9_Witness ==
  /\ rlog # <<>>
  /\ rlog[Len(rlog)].ev = "probe" /\ rlog[Len(rlog)].lvl = "dcl"
  /\ Mismatch(rlog[Len(rlog)])
  /\ rcv.status = eslFAIL

\* C10: a receive that returned a status other than eslOK hands back NULL
\* and has destroyed the collection it had built; a collection is handed
\* back only with eslOK.
C10_NoPartial ==
  /\ (rcv.pc = "done" /\ rcv.status # eslOK) =>
       /\ rcv.ret = "NULL" /\ rcv.th = <<>>
       /\ Cardinality({y \in 1..Len(rlog) : rlog[y].ev = "recv"}) >= 2
            => rcv.destroyed
  /\ rcv.ret = "th" => (rcv.pc = "done" /\ rcv.status = eslOK /\ rcv.th # <<>>)

\* The receive failed while receiving a domain, after a hit was decoded.
C10_Witness ==
  /\ rcv.pc = "done" /\ rcv.status # eslOK
  /\ rcv.lvl = "dcl" /\ rcv.destroyed
  /\ Cardinality({y \in 1..Len(rlog) : rlog[y].ev = "recv"}) >= 2


(***************************************************************************)
(* C11  Channel failure on the receive path is fatal: once an MPI_Probe    *)
(* or an MPI_Recv of the receiver has failed, that call is the last one    *)
(* the receiver makes, and the receiver returns eslESYS with no            *)
(* collection.  The code does not look at what MPI_Probe, MPI_Get_count    *)
(* and MPI_Recv return, so this does not hold.                             *)
(***************************************************************************)
C11_RecvFailureFatal ==
  \A x \in 1..Len(rlog) :
    ~rlog[x].ok =>
       /\ x = Len(rlog)
       /\ rcv.pc = "done"
       /\ rcv.status = eslESYS
       /\ rcv.ret = "NULL"


\* The place in the transfer of the message sender p is at: 1 for the
\* envelope, then the hits and their domains in order.
PlaceOf(p) ==
  CHOOSE x \in 1..Len(Expected(p)) :
    Expected(p)[x].hit = snd[p].inx /\ Expected(p)[x].dom = snd[p].dom

(***************************************************************************)
(* C12  Channel failure on the send path is fatal: a sender whose MPI_Send *)
(* of the envelope, of a hit or of a domain failed has returned eslESYS,   *)
(* and the messages it has sent are exactly those that precede the failed  *)
(* one: the failed message is not sent again and nothing after it is sent.  *)
(***************************************************************************)
C12_SendFailureFatal ==
  \A p \in Senders :
    snd[p].why = "send" =>
       /\ snd[p].pc = "done"
       /\ snd[p].status = eslESYS
       /\ Len(sent[p]) = PlaceOf(p) - 1
       /\ Len(sent[p]) < Len(Expected(p))

\* The send of a domain failed after the envelope and the hit were sent.
C12_Witness ==
  /\ snd[1].why = "send"
  /\ snd[1].pc = "done"
  /\ snd[1].dom >= 1
  /\ Len(sent[1]) >= 2


\* The failure kind of a finished send: a failed MPI_Send, a failed growth
\* of the buffer, or a pack routine that ended past the buffer's length.
SndKind(p) ==
  CASE snd[p].pc = "done" /\ snd[p].why = "send"     -> "ChannelFailure"
    [] snd[p].pc = "done" /\ snd[p].why = "ralloc"   -> "AllocationFailure"
    [] snd[p].pc = "done" /\ snd[p].why = "overflow" -> "SizeOverflow"
    [] OTHER -> "none"

\* The failure kind of a finished receive: a probe whose status differs from
\* the pinned request, or a failed allocation of a hit slot, of the buffer
\* or of the collection.
RcvKind ==
  CASE rcv.pc = "done" /\ rcv.status # eslOK /\ rlog # <<>>
         /\ rlog[Len(rlog)].ev = "probe" /\ Mismatch(rlog[Len(rlog)])
         -> "ProtocolMismatch"
    [] rcv.pc = "done" /\ rcv.fault \in {"nexthit", "ralloc", "create"}
         -> "AllocationFailure"
    [] OTHER -> "none"

\* The failed calls of this state, each as <<kind, status returned>>.
Failures ==
     {<<SndKind(p), snd[p].status>> : p \in {q \in Senders : SndKind(q) # "none"}}
  \cup (IF RcvKind # "none" THEN {<<RcvKind, rcv.status>>} ELSE {})

\* The status the code returns for each kind.
KindStatus(k) ==
  CASE k = "ChannelFailure"    -> eslESYS
    [] k = "AllocationFailure" -> eslEMEM
    [] k = "ProtocolMismatch"  -> eslFAIL
    [] k = "SizeOverflow"      -> eslEMEM

(***************************************************************************)
(* C13  As stated: two failed calls of different kinds return different    *)
(* status values.  A pack that ends past the buffer's length returns       *)
(* eslEMEM, the status of a failed allocation, so this does not hold.      *)
(***************************************************************************)
C13_PairwiseDistinct ==
  \A a \in Failures, b \in Failures : a[1] # b[1] => a[2] # b[2]

(***************************************************************************)
(* C13  As the code has it: a failed send returns eslESYS, a failed        *)
(* allocation and a size overflow both return eslEMEM, a protocol          *)
(* mismatch returns eslFAIL; two failed calls of different kinds return    *)
(* different status values unless one is an allocation failure and the     *)
(* other a size overflow.                                                  *)
(***************************************************************************)
C13_ThreeStatuses ==
  /\ \A a \in Failures : a[2] = KindStatus(a[1])
  /\ \A a \in Failures, b \in Failures :
       (a[1] # b[1] /\ {a[1], b[1]} # {"AllocationFailure", "SizeOverflow"})
          => a[2] # b[2]

\* A sender stopped by a size overflow next to a receiver stopped by a
\* failed allocation.
C13_Witness ==
  /\ SndKind(1) = "SizeOverflow"
  /\ RcvKind = "AllocationFailure"

\* Failed calls of two kinds with different statuses side by side.
C13_WitnessDistinct ==
  \E a \in Failures, b \in Failures :
    a[1] = "ProtocolMismatch" /\ b[1] \in {"SizeOverflow", "ChannelFailure"}


\* *nalloc is the size *buf was allocated with, or *buf is NULL and *nalloc
\* is 0.
ValidBuf(b) == IF b.null THEN b.nalloc = 0 ELSE b.nalloc = b.size

\* A step in which a growth of the buffer failed leaves the buffer as it was.
FailedGrowthKeeps ==
  /\ \A p \in Senders :
       (snd[p].why = "none" /\ snd'[p].why = "ralloc") => snd'[p].buf = snd[p].buf
  /\ (rcv.pc # "done" /\ rcv'.pc = "done" /\ rcv'.fault = "ralloc")
        => rcv'.buf = rcv.buf

(***************************************************************************)
(* C14  The buffer stays valid: in every state, whatever the senders and   *)
(* the receiver returned, *nalloc of each buffer is the size its block was *)
(* allocated with, or the buffer is NULL with *nalloc = 0; and a step in   *)
(* which ESL_RALLOC failed changes neither *buf nor *nalloc.               *)
(***************************************************************************)
C14_BufferValid ==
  /\ [](/\ \A p \in Senders : ValidBuf(snd[p].buf)
        /\ ValidBuf(rcv.buf))
  /\ [][FailedGrowthKeeps]_vars

\* The receiver's buffer held the envelope, its growth for the next message
\* failed, and the receiver returned with the smaller buffer.
C14_Witness ==
  /\ rcv.pc = "done"
  /\ rcv.fault = "ralloc"
  /\ rcv.status = eslEMEM
  /\ ~rcv.buf.null
  /\ rcv.buf.nalloc < rlog[Len(rlog)].n
  /\ ValidBuf(rcv.buf)


\* A step of sender p: the capacity does not decrease, and the buffer
\* changes only at lines 104-108, when it is NULL or smaller than the size
\* of the transfer, to that size.
SndBufStep(p) ==
  LET n == TophitsSize(th[p]) IN
  /\ snd'[p].buf.nalloc >= snd[p].buf.nalloc
  /\ snd'[p].buf # snd[p].buf =>
       /\ snd[p].pc = "start"
       /\ NeedsGrow(snd[p].buf, n)
       /\ snd'[p].buf.nalloc = n
  /\ ~NeedsGrow(snd[p].buf, n) => snd'[p].buf = snd[p].buf

\* A step of the receiver: the capacity does not decrease, and the buffer
\* changes only after a probe, when it is NULL or smaller than the probed
\* count n, to n.
RcvBufStep ==
  /\ rcv'.buf.nalloc >= rcv.buf.nalloc
  /\ rcv'.buf # rcv.buf =>
       /\ rcv.pc = "probe" /\ rcv'.pc = "recv"
       /\ NeedsGrow(rcv.buf, rcv'.n)
       /\ rcv'.buf.nalloc = rcv'.n
  /\ (rcv.pc = "probe" /\ rcv'.pc = "recv" /\ ~NeedsGrow(rcv.buf, rcv'.n))
       => rcv'.buf = rcv.buf

(***************************************************************************)
(* C15  The capacity *nalloc never decreases in a step of a send or of a   *)
(* receive; the buffer is grown only when it is NULL or the required size  *)
(* n exceeds the capacity, and a buffer that is not NULL with n <= *nalloc *)
(* is left as it is, capacity included.                                    *)
(***************************************************************************)
C15_CapacityMonotone ==
  [][(\A p \in Senders : SndBufStep(p)) /\ RcvBufStep]_vars

\* The receiver grew a buffer that was not NULL for one message and kept it
\* for a later, shorter one; sender 1 sent from a left-over buffer larger
\* than its transfer.
C15_Witness ==
  /\ \E x \in 1..Len(rlog) :
       rlog[x].ev = "probe" /\ ~rlog[x].buf.null /\ rlog[x].n > rlog[x].buf.nalloc
  /\ \E x \in 1..Len(rlog) :
       rlog[x].ev = "recv" /\ rlog[x].n < rlog[x].buf.nalloc
  /\ snd[1].buf = OldBuf
  /\ Len(sent[1]) >= 1
  /\ TophitsSize(th[1]) < BigBuf


\* The receive logged at place x of the history follows a probe of the same
\* message, which waited at the receiver at the probe and still did at the
\* receive: same level, source and tag, the count n the probe reported; the
\* buffer at the receive is the buffer at the probe, grown once or not at
\* all, and holds at least n bytes; the message has exactly n bytes.
SizedByProbe(x) ==
  /\ x > 1
  /\ rlog[x - 1].ev = "probe"
  /\ rlog[x - 1].lvl = rlog[x].lvl
  /\ rlog[x - 1].src = rlog[x].src
  /\ rlog[x - 1].tag = rlog[x].tag
  /\ rlog[x - 1].n = rlog[x].n
  /\ rlog[x].src \in rlog[x - 1].waiting \cap rlog[x].waiting
  /\ rlog[x].buf \in {rlog[x - 1].buf, Grown(rlog[x - 1].buf, rlog[x].n)}
  /\ rlog[x].buf.nalloc >= rlog[x].n
  /\ rlog[x].len = rlog[x].n
  /\ rlog[x].len <= rlog[x].buf.size

(***************************************************************************)
(* C16  Probe-then-receive sizing: every message the receiver has received *)
(* was probed first and left on the channel by the probe, the probe gave   *)
(* its length n, the buffer held at least n bytes at the receive, exactly  *)
(* n bytes were received, and the buffer was grown at most once for it.    *)
(* After an MPI_Probe that failed the count is not the message's length    *)
(* (C11), so this does not hold.                                           *)
(***************************************************************************)
C16_ProbeThenReceive ==
  \A x \in 1..Len(rlog) : rlog[x].ev = "recv" => SizedByProbe(x)

\* The same for the messages whose probe succeeded.
C16_WhenProbed ==
  \A x \in 1..Len(rlog) :
    (rlog[x].ev = "recv" /\ x > 1 /\ rlog[x - 1].ok) => SizedByProbe(x)


\* The place of each reference's offset among the items of a domain message.
WirePlace(r) ==
  CASE r = "rfline"  -> 13 [] r = "mmline"  -> 14 [] r = "csline"  -> 15
    [] r = "model"   -> 16 [] r = "mline"   -> 17 [] r = "aseq"    -> 18
    [] r = "ppline"  -> 19 [] r = "hmmname" -> 21 [] r = "hmmacc"  -> 22
    [] r = "hmmdesc" -> 23 [] r = "sqname"  -> 27 [] r = "sqacc"   -> 28
    [] r = "sqdesc"  -> 29

\* The log entry of the k-th message waiting on sender p's channel (the
\* receiver takes messages off the front).
EntryOf(p, k) == sent[p][Len(sent[p]) - Len(chan[p]) + k]

\* The offset on the wire of reference r in the k-th waiting message.
WireOffset(p, k, r) == chan[p][k].items[WirePlace(r)].v[1]

\* The decoded domains: <<i, j>> with domain j of hit i in the receiver's
\* collection.
Decoded ==
  IF rcv.th = <<>> THEN {}
  ELSE {ij \in (1..MaxHits) \X (1..MaxDom) :
          /\ ij[1] <= Len(rcv.th[1].unsrt)
          /\ ij[2] <= Len(rcv.th[1].unsrt[ij[1]].dcl)}

(***************************************************************************)
(* C17  Sentinel integrity.  In every domain message on the wire, each of  *)
(* the thirteen offsets is -1 exactly when the sender's reference is       *)
(* absent and otherwise the reference's distance from the pool start.  In  *)
(* every decoded domain, each reference is absent exactly when that        *)
(* offset was -1 (the sender's reference absent) and otherwise is the new  *)
(* pool's start plus the offset, inside the pool: -1 is never added to     *)
(* the pool's start.                                                       *)
(***************************************************************************)
C17_Sentinel ==
  /\ \A p \in Senders : \A k \in 1..Len(chan[p]) :
       EntryOf(p, k).kind = "dcl" =>
         LET ad == th[p].unsrt[EntryOf(p, k).hit].dcl[EntryOf(p, k).dom].ad IN
         \A r \in RefSet :
           /\ WireOffset(p, k, r) = -1 <=> ad.ref[r] = NULL
           /\ ad.ref[r] # NULL => WireOffset(p, k, r) = ad.ref[r] - ad.mem
  /\ \A ij \in Decoded :
       LET d == rcv.th[1].unsrt[ij[1]].dcl[ij[2]].ad
           a == th[rcv.source].unsrt[ij[1]].dcl[ij[2]].ad IN
       \A r \in RefSet :
         /\ d.ref[r] = NULL <=> a.ref[r] = NULL
         /\ d.ref[r] # NULL =>
              /\ d.ref[r] = d.mem + (a.ref[r] - a.mem)
              /\ d.mem <= d.ref[r] /\ d.ref[r] < d.mem + d.memsize

\* A domain with a present and an absent reference is decoded while the
\* message of another one, with -1 for an absent reference, waits on the
\* wire.
C17_Witness ==
  /\ \E ij \in Decoded :
       LET d == rcv.th[1].unsrt[ij[1]].dcl[ij[2]].ad IN
       (\E r \in RefSet : d.ref[r] = NULL) /\ (\E r \in RefSet : d.ref[r] # NULL)
  /\ \E k \in 1..Len(chan[1]) :
       /\ EntryOf(1, k).kind = "dcl"
       /\ \E r \in RefSet : WireOffset(1, k, r) = -1


\* The domain messages the receiver has received so far.
DclReceived == {x \in 1..Len(rlog) : rlog[x].ev = "recv" /\ rlog[x].lvl = "dcl"}

(***************************************************************************)
(* C18  Zero-length pool: without faults no decoding fails, so every       *)
(* domain message received, with a pool of 0 bytes or more, has given a    *)
(* decoded domain; a decoded domain whose memsize is 0 owns a pool object  *)
(* (ad->mem is not NULL) of no bytes and all its thirteen references are   *)
(* absent.                                                                 *)
(***************************************************************************)
C18_ZeroPool ==
  /\ rcv.status = eslOK
  /\ Cardinality(DclReceived) = Cardinality(Decoded)
  /\ \A ij \in Decoded :
       LET d == rcv.th[1].unsrt[ij[1]].dcl[ij[2]].ad
           a == th[rcv.source].unsrt[ij[1]].dcl[ij[2]].ad IN
       /\ d.memsize = a.memsize
       /\ d.memsize = 0 =>
            /\ d.mem # NULL
            /\ d.pool = <<>>
            /\ \A r \in RefSet : d.ref[r] = NULL

\* A collection whose one domain has a pool of 0 bytes was sent and received
\* with success.
C18_Witness ==
  /\ SendOK(1) /\ RecvOK /\ rcv.source = 1
  /\ th[1].N = 1 /\ th[1].unsrt[1].ndom = 1
  /\ th[1].unsrt[1].dcl[1].ad.memsize = 0
  /\ Decoded = {<<1, 1>>}
  /\ rcv.th[1].unsrt[1].dcl[1].ad.memsize = 0


\* The hit messages the receiver has received so far, as places of the
\* history, and the number of the hit received at place x.
HitReceived == {x \in 1..Len(rlog) : rlog[x].ev = "recv" /\ rlog[x].lvl = "hit"}
HitNumber(x) == Cardinality({y \in HitReceived : y <= x})

(***************************************************************************)
(* C19  Hit without domains: once the receiver has received the message of *)
(* a hit whose ndom is 0, the hit is in its collection with ndom = 0, an   *)
(* empty domain list and the sender's name, accession and description      *)
(* (absent when absent on the sender); what the receiver does next is the  *)
(* probe for the next hit, never one for a domain, or, after the last hit, *)
(* the return with eslOK.                                                  *)
(***************************************************************************)
C19_NoDomains ==
  \A x \in HitReceived :
    LET k == HitNumber(x)
        h == th[rcv.source].unsrt[k] IN
    h.ndom = 0 =>
      /\ rcv.status = eslOK
      /\ k <= Len(rcv.th[1].unsrt)
      /\ rcv.th[1].unsrt[k].ndom = 0
      /\ rcv.th[1].unsrt[k].dcl = <<>>
      /\ rcv.th[1].unsrt[k].name = h.name
      /\ rcv.th[1].unsrt[k].acc  = h.acc
      /\ rcv.th[1].unsrt[k].desc = h.desc
      /\ x < Len(rlog) => rlog[x + 1].ev = "probe" /\ rlog[x + 1].lvl = "hit"
      /\ x = Len(rlog) =>
           IF k < th[rcv.source].N
           THEN rcv.pc = "probe" /\ rcv.lvl = "hit"
           ELSE RecvOK

\* A collection was received whose first hit, with a next hit after it, and
\* whose last hit have no domain and no name, accession or description.
C19_Witness ==
  /\ RecvOK /\ rcv.source = 1
  /\ th[1].N = MaxHits
  /\ Len(rcv.th[1].unsrt) = MaxHits
  /\ \A k \in {1, MaxHits} :
       /\ th[1].unsrt[k].ndom = 0
       /\ rcv.th[1].unsrt[k].dcl = <<>>
       /\ rcv.th[1].unsrt[k].name.null
       /\ rcv.th[1].unsrt[k].acc.null
       /\ rcv.th[1].unsrt[k].desc.null


\* The receiver's pending MPI_Probe or MPI_Recv can return: a message that
\* matches it waits.
ReceiverCanStep ==
  \/ rcv.pc = "probe" /\ Pending(rcv.source, rcv.tag) # {}
  \/ rcv.pc = "recv"  /\ FirstMatch(chan[rcv.source], rcv.tag) # 0

\* Nothing moves any more: every sender has returned (or never sent) and the
\* receiver has returned or waits for a message that is not there.
Stopped ==
  /\ \A p \in Senders : snd[p].pc \in {"done", "idle"}
  /\ ~ReceiverCanStep

(***************************************************************************)
(* C20  Completion: with no failed channel operation or allocation, the    *)
(* send of a collection and the matching receive both end up returning     *)
(* eslOK and neither waits for ever.  Every step of a transfer sends or    *)
(* consumes a message or ends a call, so under the fairness of SpecLive    *)
(* every run comes to a state where nothing moves any more, and the claim  *)
(* is that in such a state both calls have returned eslOK.  A send from a  *)
(* buffer it has to size itself stops on a pack that does not fit (C2, C4, *)
(* C5) and the receiver waits for ever for the message that is not sent,   *)
(* so this does not hold.                                                  *)
(***************************************************************************)
C20_Completion == Stopped => (SendOK(1) /\ RecvOK)

\* The same for sends from a buffer that is large enough from the start.
C20_WhenSized ==
  (Stopped /\ snd[1].buf = OldBuf) => (SendOK(1) /\ RecvOK)

\* No step starts in a state where nothing moves.
C20_StoppedIsFinal == [][~Stopped]_vars


\* Sender p is past lines 78-108, the sizing of its buffer.
Sized(p) == snd[p].pc \in {"hit", "dcl", "done"} /\ snd[p].why \notin {"packsize", "ralloc"}

\* The domain the scan of lines 81-91 selects, as a one-element sequence
\* (empty when the collection has no domain).
Selected(c) == ScanLargest(AllDomains(c.unsrt), [sz |-> 0, dcl |-> <<>>]).dcl

\* The place, among all domains in scan order, of the last one whose pool
\* has the largest size.
LastLargest(doms) ==
  CHOOSE k \in 1..Len(doms) :
    /\ \A l \in 1..Len(doms) : doms[l].ad.memsize <= doms[k].ad.memsize
    /\ \A l \in (k + 1)..Len(doms) : doms[l].ad.memsize < doms[k].ad.memsize

(***************************************************************************)
(* C21  Send-side sizing covers every domain: once a sender has sized its  *)
(* buffer, the capacity is at least p7_dcl_MPIPackSize(d) for every domain *)
(* d of every hit and at least the packed size of the envelope; the domain *)
(* the scan selected is the last one with the largest pool, and no domain  *)
(* has a larger p7_dcl_MPIPackSize.                                        *)
(***************************************************************************)
C21_SizingCoversDomains ==
  \A p \in Senders :
    Sized(p) =>
      LET doms == AllDomains(th[p].unsrt) IN
      /\ snd[p].buf.nalloc >= MPI_Pack_size(3, "MPI_LONG_LONG_INT")
      /\ \A k \in 1..Len(doms) : snd[p].buf.nalloc >= p7_dcl_MPIPackSize(doms[k])
      /\ doms # <<>> =>
           /\ Selected(th[p]) = <<doms[LastLargest(doms)]>>
           /\ \A k \in 1..Len(doms) :
                p7_dcl_MPIPackSize(doms[k]) <= p7_dcl_MPIPackSize(Selected(th[p])[1])

\* A sender sized a fresh buffer for a hit whose largest pool is the one of
\* its last domain.
C21_Witness ==
  /\ Sized(1)
  /\ th[1].N = 1 /\ th[1].unsrt[1].ndom = MaxDom
  /\ th[1].unsrt[1].dcl[1].ad.memsize < th[1].unsrt[1].dcl[MaxDom].ad.memsize
  /\ snd[1].buf.nalloc = p7_dcl_MPIPackSize(th[1].unsrt[1].dcl[MaxDom])


\* The levels at which the receiver of these hits asks for a message after
\* the envelope: each hit, then one domain for each of its ndom.
RECURSIVE LevelsOf(_)
LevelsOf(hits) ==
  IF hits = <<>> THEN <<>>
  ELSE <<"hit">> \o [j \in 1..Head(hits).ndom |-> "dcl"] \o LevelsOf(Tail(hits))

\* The number of messages of sender p the receiver has taken off the channel.
Taken(p) == Len(sent[p]) - Len(chan[p])

(***************************************************************************)
(* C22  Receiver consumes exactly one transfer: a p7_tophits_MPIRecv that  *)
(* returned eslOK has made exactly 1 + count + (sum of the decoded ndom)   *)
(* probe/receive pairs, in the order envelope, hit 1, its domains, hit 2,  *)
(* ...; it took messages of one sender only; every message it took belongs *)
(* to the call of p7_tophits_MPISend that sent the envelope, and no        *)
(* message of that call is left on the channel.                            *)
(***************************************************************************)
C22_ExactlyOneTransfer ==
  RecvOK =>
    LET hits == rcv.th[1].unsrt
        want == <<"env">> \o LevelsOf(hits)
        p    == rcv.source
    IN  /\ Len(want) = 1 + rcv.nhits + SumNdom(hits)
        /\ Len(rlog) = 2 * Len(want)
        /\ \A x \in 1..Len(want) :
             /\ rlog[2 * x - 1].ev = "probe" /\ rlog[2 * x - 1].lvl = want[x]
             /\ rlog[2 * x].ev = "recv"      /\ rlog[2 * x].lvl = want[x]
        /\ Taken(p) = Len(want)
        /\ \A q \in Senders \ {p} : Taken(q) = 0
        /\ \A x \in 1..Taken(p) : sent[p][x].call = sent[p][1].call
        /\ \A x \in (Taken(p) + 1)..Len(sent[p]) : sent[p][x].call # sent[p][1].call


\* The place, among the receives of a call that returned these hits, of the
\* message of hit i.
PlaceOfHit(hits, i) == 1 + i + SumNdom(SubSeq(hits, 1, i - 1))

\* The items of the x-th message the receiver took.
TakenItems(x) == rlog[2 * x].items

(***************************************************************************)
(* C23  Domain-count invariant on the receive side: in a collection that   *)
(* p7_tophits_MPIRecv returned, the number of hits is the count of the     *)
(* envelope, every hit has as many decoded domains as its decoded ndom,    *)
(* hit i is what the i-th hit message held, and domain j of hit i is what  *)
(* the j-th message after that hit message held, a domain message.         *)
(***************************************************************************)
C23_DomainCount ==
  RecvOK =>
    LET c    == rcv.th[1]
        hits == c.unsrt
    IN  /\ c.N = rcv.nhits
        /\ Len(hits) = rcv.nhits
        /\ rcv.nhits = TakenItems(1)[1].v[1]
        /\ \A i \in 1..Len(hits) :
             /\ Len(hits[i].dcl) = hits[i].ndom
             /\ HoldsHit(TakenItems(PlaceOfHit(hits, i)))
             /\ [hits[i] EXCEPT !.dcl = <<>>]
                  = p7_hit_MPIUnpack(TakenItems(PlaceOfHit(hits, i)), BigBuf, TRUE).hit
             /\ \A j \in 1..hits[i].ndom :
                  /\ HoldsDcl(TakenItems(PlaceOfHit(hits, i) + j))
                  /\ hits[i].dcl[j]
                       = p7_dcl_MPIUnpack(TakenItems(PlaceOfHit(hits, i) + j), BigBuf,
                                          TRUE, NewPool(i, j)).dcl


Layout(items) == [k \in 1..Len(items) |-> <<items[k].t, Len(items[k].v)>>]

\* The k-th message the receiver took was written and is read with the same
\* fields in the same order, and the decoder ends where the encoder ended.
SameOrder(k) ==
  LET e == rlog[2 * k]
      s == sent[rcv.source][k] IN
  CASE e.lvl = "env" ->
         LET u == EnvelopeUnpack(e.items, e.n) IN
         /\ u.st = eslOK /\ u.pos = s.packed
         /\ u.out = [x \in 1..3 |-> e.items[x].v]
    [] e.lvl = "hit" ->
         LET u == p7_hit_MPIUnpack(e.items, e.n, TRUE) IN
         /\ u.st = eslOK /\ u.pos = s.packed
         /\ SubSeq(Layout(e.items), 1, Len(HitTypes))
              = [x \in 1..Len(HitTypes) |-> <<HitTypes[x], 1>>]
         /\ p7_hit_MPIPack(u.hit, e.n, TRUE).items = e.items
    [] e.lvl = "dcl" ->
         LET u == p7_dcl_MPIUnpack(e.items, e.n, TRUE, NewPool(0, 0)) IN
         /\ u.st = eslOK /\ u.pos = s.packed
         /\ Layout(e.items)
              = [x \in 1..Len(DclTypes) |-> <<DclTypes[x], 1>>]
                  \o << <<"MPI_CHAR", u.dcl.ad.memsize>> >>
         /\ p7_dcl_MPIPack(u.dcl, e.n, TRUE).items = e.items

(***************************************************************************)
(* C25  Encoder and decoder agree on field order: the fields, wire types   *)
(* and element counts p7_hit_MPIPack writes are the ones p7_hit_MPIUnpack  *)
(* reads, in the same order, and so for p7_dcl_MPIPack and                 *)
(* p7_dcl_MPIUnpack (12 domain fields, 7 line offsets, N, 3 model offsets, *)
(* hmmfrom, hmmto, M, 3 sequence offsets, sqfrom, sqto, L, memsize, the    *)
(* pool bytes); after decoding a message the decoder's position is the     *)
(* position the encoder had reached.                                       *)
(***************************************************************************)
C25_SameFieldOrder ==
  /\ Len(DclTypes) = 12 + 7 + 1 + 3 + 3 + 3 + 3 + 1
  /\ \A k \in 1..(Len(rlog) \div 2) : SameOrder(k)

\* The receiver took a hit message with a present and an absent string and
\* a domain message with a pool of MaxPool bytes.
C25_Witness ==
  /\ \E k \in 1..(Len(rlog) \div 2) :
       /\ rlog[2 * k].lvl = "hit"
       /\ Len(rlog[2 * k].items) > Len(HitTypes) + 3
       /\ rlog[2 * k].items[Len(rlog[2 * k].items)].v = <<0>>
  /\ \E k \in 1..(Len(rlog) \div 2) :
       /\ rlog[2 * k].lvl = "dcl"
       /\ Len(rlog[2 * k].items[Len(DclTypes) + 1].v) = MaxPool


\* The packed items of the one record a message of that kind holds.
RecordItems(p, e) ==
  CASE e.kind = "env" -> EnvelopePack(th[p], BigBuf, TRUE).items
    [] e.kind = "hit" -> p7_hit_MPIPack(th[p].unsrt[e.hit], BigBuf, TRUE).items
    [] e.kind = "dcl" -> p7_dcl_MPIPack(th[p].unsrt[e.hit].dcl[e.dom], BigBuf, TRUE).items

\* Messages of both senders were waiting at a probe after the first.
BothWaiting == \E x \in 2..Len(rlog) : rlog[x].ev = "probe" /\ rlog[x].waiting = Senders

(***************************************************************************)
(* C26  No cross-talk between concurrent senders: when two peers send to   *)
(* the receiver on the same tag and the receiver asked for any source,     *)
(* then under every interleaving every message it took and decoded was     *)
(* sent by the peer P its first probe resolved to, in the order P sent     *)
(* them; what it has decoded is P's collection so far, and the collection  *)
(* it returns is P's; the messages of the other peer are all still in the  *)
(* channel, in the order they were sent.                                   *)
(***************************************************************************)
C26_NoCrossTalk ==
  (rcv.asksrc = MPI_ANY_SOURCE /\ rlog # <<>>) =>
    LET P == rlog[1].src IN
    /\ rcv.source = P
    /\ \A x \in 1..Len(rlog) : rlog[x].src = P
    /\ \A k \in 1..(Len(rlog) \div 2) :
         /\ k <= Len(Expected(P))
         /\ rlog[2 * k].items = RecordItems(P, Expected(P)[k])
    /\ Taken(P) = Len(rlog) \div 2
    /\ rcv.status = eslOK
    /\ rcv.th # <<>> =>
         \A i \in 1..Len(rcv.th[1].unsrt) :
           /\ [CanonHit(rcv.th[1].unsrt[i]) EXCEPT !.dcl = <<>>]
                = [CanonHit(th[P].unsrt[i]) EXCEPT !.dcl = <<>>]
           /\ \A j \in 1..Len(rcv.th[1].unsrt[i].dcl) :
                CanonDcl(rcv.th[1].unsrt[i].dcl[j]) = CanonDcl(th[P].unsrt[i].dcl[j])
    /\ RecvOK => CanonTophits(rcv.th[1]) = CanonTophits(th[P])
    /\ \A q \in Senders \ {P} :
         /\ Len(chan[q]) = Len(sent[q])
         /\ \A k \in 1..Len(chan[q]) :
              /\ chan[q][k].src = q
              /\ chan[q][k].len = sent[q][k].len
              /\ chan[q][k].items = RecordItems(q, Expected(q)[k])

\* The receiver resolved to sender 2, took its hits and domains while
\* messages of both senders were waiting, and returned the collection of
\* sender 2 with the whole transfer of sender 1 still in the channel.
C26_Witness ==
  /\ RecvOK /\ rcv.source = 2
  /\ th[1].N = MaxHits /\ th[2].N = MaxHits
  /\ th[2].unsrt[1].ndom = 1 /\ th[1].unsrt[MaxHits].ndom = 1
  /\ BothWaiting
  /\ SendOK(1) /\ Len(chan[1]) = 1 + th[1].N + SumNdom(th[1].unsrt)


\* A step in which sender p hands a message to MPI_Send gives it the length
\* n of the sizing step for the envelope, and the capacity *nalloc it holds
\* at that time for a hit or a domain.
SendLength(p) ==
  Len(sent'[p]) > Len(sent[p]) =>
    LET e == sent'[p][Len(sent'[p])] IN
    /\ e.len = chan'[p][Len(chan'[p])].len
    /\ e.kind = "env" => e.len = TophitsSize(th[p])
    /\ e.kind \in {"hit", "dcl"} => e.len = snd[p].buf.nalloc /\ e.len = snd'[p].buf.nalloc

\* The lengths of the messages sent so far, and of those probed.
LengthsSoFar ==
  /\ \A p \in Senders : \A x \in 1..Len(sent[p]) :
       /\ sent[p][x].packed <= sent[p][x].len
       /\ \A y \in 1..Len(sent[p]) :
            (/\ sent[p][x].call = sent[p][y].call
             /\ sent[p][x].kind # "env" /\ sent[p][y].kind # "env")
              => sent[p][x].len = sent[p][y].len
  /\ \A k \in 1..((Len(rlog) + 1) \div 2) :
       LET e == sent[rlog[2 * k - 1].src][k] IN
       /\ rlog[2 * k - 1].n = e.len
       /\ rlog[2 * k - 1].n >= e.packed

(***************************************************************************)
(* C27  Transmitted length is the sender's buffer capacity: every hit and  *)
(* domain message is sent with the length *nalloc has at the send, not     *)
(* with the packed length, and the envelope with the n of the sizing step. *)
(* So the length a probe reports is at least the packed length of the      *)
(* record, and all hit and domain messages of one transfer have the same   *)
(* length.                                                                 *)
(***************************************************************************)
C27_LengthIsCapacity ==
  [](LengthsSoFar) /\ [][\A p \in Senders : SendLength(p)]_vars

\* From a buffer of BigBuf bytes sender 1 sent an envelope shorter than the
\* capacity, and a hit and a domain that fill less than the BigBuf bytes
\* they were sent with; the receiver probed the domain.
C27_Witness ==
  /\ snd[1].buf.nalloc = BigBuf
  /\ sent[1] # <<>> /\ sent[1][1].len < BigBuf
  /\ \E x \in SentOf(1, "hit") : sent[1][x].packed < sent[1][x].len
  /\ \E x \in SentOf(1, "dcl") : sent[1][x].packed < sent[1][x].len
  /\ \E x \in 1..Len(rlog) :
       rlog[x].ev = "probe" /\ rlog[x].lvl = "dcl" /\ rlog[x].n = BigBuf


\* The receives of hit and domain messages so far.
RecordReceived == HitReceived \cup DclReceived

\* The position the decoder reached in the buffer after the receive e.
\* p7_hit_MPIUnpack is given the probed length.  p7_dcl_MPIUnpack is given
\* the capacity: on a whole domain message it stops where the encoder
\* stopped; on anything else it reads the fields of a domain for as long as
\* MPI_Unpack finds bytes below the capacity.
ReadUpTo(e) ==
  IF e.lvl = "hit" THEN p7_hit_MPIUnpack(e.items, e.n, TRUE).pos
  ELSE IF e.ok /\ HoldsDcl(e.items)
       THEN p7_dcl_MPIUnpack(e.items, e.buf.nalloc, TRUE, NewPool(0, 0)).pos
       ELSE UnpackFields(NewUnpack, p7_dcl_MPIPack(StaleDcl, BigBuf, TRUE).items,
                         e.buf.nalloc, DclTypes).pos

(***************************************************************************)
(* C28  Decoding stays inside the received message: after a receive of a   *)
(* hit or domain message of probed length n, the decoder reads no byte at  *)
(* or above n, also when the capacity of the reused buffer is larger than  *)
(* n, so that bytes an earlier message left in the buffer are not decoded  *)
(* as part of the record.                                                  *)
(***************************************************************************)
C28_DecodeInsideMessage ==
  \A x \in RecordReceived : ReadUpTo(rlog[x]) <= rlog[x].n


\* A collection in which every hit slot holds a decoded hit and every hit
\* has as many decoded domains as its ndom.
WellFormed(c) ==
  /\ c.N = Len(c.unsrt)
  /\ \A i \in 1..Len(c.unsrt) : Len(c.unsrt[i].dcl) = c.unsrt[i].ndom

(***************************************************************************)
(* C29  The partial collection is well formed whenever it is discarded:    *)
(* when p7_tophits_MPIRecv has taken its error path and destroyed the      *)
(* partial collection, every hit that had been appended to it had been     *)
(* decoded, and every hit whose ndom is d had exactly d decoded domains.   *)
(***************************************************************************)
C29_DiscardedWellFormed ==
  rcv.destroyed => WellFormed(rcv.dropped[1])


====
